---------------------------- MODULE Spec2Model ----------------------------
(***************************************************************************)
(* Request orchestration and two-tier caching core of geocoding_api:      *)
(* CacheManager (Redis tier-1, SQLite tier-2), the provider adapters'     *)
(* _make_request, and the search method of Geocoder / GeocoderReverser.   *)
(*                                                                         *)
(* Python strings are sequences of one-character strings, so that lower,  *)
(* upper and strip are computed and not assumed.  Python None is the      *)
(* one-element sequence <<"None">>, which is no string and no JSON text.  *)
(* A coroutine runs without interruption between two awaits; every await  *)
(* on a backend (Redis, SQLite, HTTP) is one step of the model.           *)
(***************************************************************************)
EXTENDS Integers, Sequences, FiniteSets, TLC

VARIABLES
    redis,          \* tier-1 store: the entries <<key, JSON text>> of one flat
                    \* keyspace, in the order they were last written
    sqlite,         \* tier-2 store: table name -> (stored key -> JSON text)
    redis_client,   \* CacheManager.redis_client: "None", "open" or "closed"
    redis_up,       \* whether the Redis server answers
    db_conn,        \* CacheManager.db_conn: "None", "open" or "closed"
    geocoders,      \* Geocoder.geocoders: ordered registry of entry names
    reversers,      \* GeocoderReverser.geocoders: ordered registry
    environ,        \* the environment variables that are set
    task,           \* per coroutine: position, locals, and what it has done
    calls,          \* number of top-level calls started so far
    args,           \* a function called on its own: its name and arguments
    out             \* what that call returned or raised

\* The connections and the backend behind them.
env == <<redis_client, redis_up, db_conn>>

\* The call of one function outside any request.
fn == <<args, out>>

vars == <<redis, sqlite, redis_client, redis_up, db_conn,
          geocoders, reversers, environ, task, calls, args, out>>

None == <<"None">>

\* No function has been called on its own.
NoCall == [fn |-> "none"]

-----------------------------------------------------------------------------
(* Bounds of the model                                                     *)

\* Searches started in one behaviour of the orchestrators.
MaxSearches == 2

\* Calls of CacheManager's API started in one behaviour of the cache alone.
MaxCalls == 3

\* Calls of the CacheManager, by two coroutines, where calls overlap.
MaxOverlappingCalls == 2

-----------------------------------------------------------------------------
(* str.lower, str.upper, str.strip on ASCII strings                        *)

LowerLetters ==
    <<"a","b","c","d","e","f","g","h","i","j","k","l","m",
      "n","o","p","q","r","s","t","u","v","w","x","y","z">>

UpperLetters ==
    <<"A","B","C","D","E","F","G","H","I","J","K","L","M",
      "N","O","P","Q","R","S","T","U","V","W","X","Y","Z">>

Whitespace == {" ", "\t", "\n"}

LowerChar(c) ==
    IF \E i \in 1..Len(UpperLetters) : UpperLetters[i] = c
    THEN LowerLetters[CHOOSE i \in 1..Len(UpperLetters) : UpperLetters[i] = c]
    ELSE c

UpperChar(c) ==
    IF \E i \in 1..Len(LowerLetters) : LowerLetters[i] = c
    THEN UpperLetters[CHOOSE i \in 1..Len(LowerLetters) : LowerLetters[i] = c]
    ELSE c

Lower(s) == [i \in 1..Len(s) |-> LowerChar(s[i])]

Upper(s) == [i \in 1..Len(s) |-> UpperChar(s[i])]

Strip(s) ==
    LET keep == {i \in 1..Len(s) : s[i] \notin Whitespace}
    IN  IF keep = {} THEN <<>>
        ELSE LET lo == CHOOSE i \in keep : \A j \in keep : i <= j
                 hi == CHOOSE i \in keep : \A j \in keep : j <= i
             IN  SubSeq(s, lo, hi)

\* Truth value of an Optional[str]: None and "" are falsy.
TruthyStr(s) == s # None /\ Len(s) > 0

-----------------------------------------------------------------------------
(* String literals of the source, spelled as character sequences           *)

sNOMINATIM == <<"N","O","M","I","N","A","T","I","M">>

sNOMINATIM_REPLICA_1 ==
    sNOMINATIM \o <<"_","R","E","P","L","I","C","A","_","1">>

sGEOAPIFY == <<"G","E","O","A","P","I","F","Y">>

sHERE == <<"H","E","R","E">>

sAny == <<"a","n","y">>

sColon == <<":">>

-----------------------------------------------------------------------------
(* json.dumps / json.loads                                                 *)
(* A Python list is <<"list", item, ...>>, a dict <<"dict", item, ...>>.   *)
(* An item is a Pydantic model ("C", "D": Coordinates; "A": Address), the  *)
(* dict of one ("{C}", ...), or one record of a provider payload           *)
(* ("item:C", ...).  JSON text is a sequence of tokens.                    *)

Models == {"C", "D", "A"}

\* item.model_dump()
model_dump(item) ==
    CASE item = "C" -> "{C}" [] item = "D" -> "{D}" [] item = "A" -> "{A}"
      [] OTHER -> item

\* Pydantic's validation of a list element of GeocodeResponse.data /
\* ReverseGeocodeResponse.data: a dict of the model's fields becomes the model.
model_validate(item) ==
    CASE item = "{C}" -> "C" [] item = "{D}" -> "D" [] item = "{A}" -> "A"
      [] OTHER -> item

PyList(items) == <<"list">> \o items

PyDict(items) == <<"dict">> \o items

\* bool(v) of a container or None: empty containers and None are falsy.
Truthy(v) == v # None /\ Len(v) > 1

json_dumps(v) ==
    IF v = None THEN <<"null">>
    ELSE IF v[1] = "list" THEN <<"[">> \o Tail(v) \o <<"]">>
    ELSE <<"{">> \o Tail(v) \o <<"}">>

json_loads(s) ==
    IF s = <<"null">> THEN None
    ELSE IF s[1] = "[" THEN <<"list">> \o SubSeq(s, 2, Len(s) - 1)
    ELSE <<"dict">> \o SubSeq(s, 2, Len(s) - 1)

-----------------------------------------------------------------------------
(* Cache keys                                                              *)

\* hashlib.sha256(...).hexdigest(): modelled as collision-free, the digest
\* of a text is identified by the text itself.
sha256(text) == <<"sha256", text>>

Digits == <<"0","1","2","3","4","5","6","7","8","9">>

RECURSIVE NatStr(_)
NatStr(n) ==
    IF n < 10 THEN <<Digits[n + 1]>>
    ELSE NatStr(n \div 10) \o <<Digits[(n % 10) + 1]>>

RECURSIVE ZeroPad(_, _)
ZeroPad(s, width) == IF Len(s) >= width THEN s ELSE ZeroPad(<<"0">> \o s, width)

\* A float coordinate is an integer number of 10^-7 degrees (non-negative
\* here).  repr(x), as json.dumps and str.format write it.
FloatRepr(x) == NatStr(x \div 10000000) \o <<".">> \o ZeroPad(NatStr(x % 10000000), 7)

\* f"{x:.6f}" if it cut the digits after the sixth instead of rounding.
Fmt6_truncating(x) ==
    LET micro == x \div 10
    IN  NatStr(micro \div 1000000) \o <<".">> \o ZeroPad(NatStr(micro % 1000000), 6)

\* f"{x:.6f}": rounded to the nearest 10^-6.
Fmt6(x) ==
    LET micro == (x + 5) \div 10
    IN  NatStr(micro \div 1000000) \o <<".">> \o ZeroPad(NatStr(micro % 1000000), 6)

\* Geocoder._generate_cache_key / GeocoderReverser._generate_cache_key.
\* kind is "geocode" or "revgeo"; a geocode query is an address string, a
\* revgeo query a pair <<latitude, longitude>>.
platform_norm(platform) ==
    IF TruthyStr(platform) THEN Strip(Lower(platform)) ELSE sAny

query_norm(kind, query) ==
    IF kind = "geocode" THEN Strip(Lower(query))
    ELSE Fmt6(query[1]) \o sColon \o Fmt6(query[2])

\* The string that is hashed: f"{address_norm}:{platform_norm}".
key_string(kind, query, platform) ==
    query_norm(kind, query) \o sColon \o platform_norm(platform)

generate_cache_key(kind, query, platform) ==
    <<"final", kind, sha256(key_string(kind, query, platform))>>

-----------------------------------------------------------------------------
(* Provider adapters: registry entries, classes, request parameters        *)

\* Geocoder.__init__ / GeocoderReverser.__init__: the dict literals, in
\* insertion order.  The comprehension that follows them in the source drops
\* entries that are None; no constructor returns None, so it drops nothing.
GeocoderEntries == <<sNOMINATIM, sNOMINATIM_REPLICA_1>>

ReverserEntries == <<sGEOAPIFY, sHERE, sNOMINATIM, sNOMINATIM_REPLICA_1>>

\* The class attribute `name` of the adapter registered under an entry.
AdapterClass(kind, entry) ==
    IF kind = "geocode" THEN "NominatimGeocoder"
    ELSE IF entry = sGEOAPIFY THEN "GeoapifyReverseGeocoder"
    ELSE IF entry = sHERE THEN "HereReverseGeocoder"
    ELSE "NominatimReverseGeocoder"

\* Whether the adapter's url attribute is a string (and not None): the
\* replica's url is os.getenv(...), every other url is a literal.
UrlIsSet(kind, entry) ==
    \/ kind # "geocode"
    \/ entry # sNOMINATIM_REPLICA_1
    \/ "NOMINATIM_GEOCODER_REPLICA_URL_1" \in environ

\* os.getenv of an API key, as the JSON text of the value.
Getenv(var) == IF var \in environ THEN <<"k","e","y">> ELSE None

\* The params dict each adapter builds, as <<name, value>> pairs in
\* insertion order; values are written as json.dumps writes them.
Params(class, query) ==
    IF class = "NominatimGeocoder" THEN
        << <<"q", query>>, <<"format", <<"j","s","o","n">> >>,
           <<"addressdetails", <<"1">> >>, <<"limit", <<"5">> >> >>
    ELSE IF class = "GeoapifyReverseGeocoder" THEN
        << <<"lat", FloatRepr(query[1])>>, <<"lon", FloatRepr(query[2])>>,
           <<"apiKey", Getenv("GEOAPIFY_API_KEY")>>,
           <<"type", <<"b","u","i","l","d","i","n","g">> >> >>
    ELSE IF class = "HereReverseGeocoder" THEN
        << <<"at", FloatRepr(query[1]) \o <<",">> \o FloatRepr(query[2])>>,
           <<"apiKey", Getenv("HERE_API_KEY")>>,
           <<"lang", <<"e","n","-","U","S">> >> >>
    ELSE
        << <<"format", <<"j","s","o","n">> >>,
           <<"lat", FloatRepr(query[1])>>, <<"lon", FloatRepr(query[2])>>,
           <<"accept-language", <<"e","n">> >>, <<"addressdetails", <<"1">> >> >>

\* The parameter names of the source in ascending string order.
ParamNames ==
    <<"accept-language", "addressdetails", "apiKey", "at", "format", "lang",
      "lat", "limit", "lon", "q", "type">>

ParamRank(name) == CHOOSE i \in 1..Len(ParamNames) : ParamNames[i] = name

\* json.dumps(params) without sort_keys: the pairs in insertion order.
sorted_dumps_insertionOrder(params) == params

\* json.dumps(params, sort_keys=True): the pairs in ascending key order.
sorted_dumps(params) ==
    LET ranks == {ParamRank(params[j][1]) : j \in 1..Len(params)}
        nth(k) == CHOOSE r \in ranks : Cardinality({q \in ranks : q < r}) = k - 1
        at(r)  == CHOOSE j \in 1..Len(params) :
                      /\ params[j][1] = ParamNames[r]
                      /\ \A i \in 1..Len(params) : params[i][1] = ParamNames[r] => i <= j
    IN  [k \in 1..Cardinality(ranks) |-> params[at(nth(k))]]

\* ServiceCommandBase._generate_cache_key
raw_cache_key(class, params) == <<"raw", class, sha256(sorted_dumps(params))>>

-----------------------------------------------------------------------------
(* Result values and responses                                             *)

Success(value) == [ok |-> TRUE, value |-> value, error |-> "None", raised |-> FALSE]

Failure(error) == [ok |-> FALSE, value |-> None, error |-> error, raised |-> FALSE]

\* Not a Result: the call did not return, it raised the named exception.
Raised(exception) == [ok |-> FALSE, value |-> None, error |-> exception, raised |-> TRUE]

\* GeocodeResponse / ReverseGeocodeResponse
Response(success, data, error) == [success |-> success, data |-> data, error |-> error]

NoResponse == Response(FALSE, None, "None")

ErrInvalidPlatform == "Invalid platform specified."

ErrNoGeocoders == "No geocoders are configured."

ErrAllFailed == "All geocoding services failed."

ErrTimeout == "Request timeout."

ErrRateLimit == "API rate limit exceeded."

ErrHttp == "HTTP error: ..."

ErrRequest == "Request failed: ..."

ErrNoCoordinates == "No coordinates found for the given address."

ErrNoAddress == "No address found for the given coordinates."

ErrNoAddressGeoapify == "No address found for coordinates"

ErrInvalidFormat == "Invalid response format: ..."

-----------------------------------------------------------------------------
(* Normalisation of a provider payload into domain records                 *)
(* A payload is PyList(items) or {field: [items]} = PyDict(<<field>> \o    *)
(* items).  An item is a well-formed record ("item:C", "item:D" with       *)
(* coordinates; "item:A" with an address) or a malformed one: "nolat" (a   *)
(* dict without "lat"), "noformatted" (a feature without "formatted"),     *)
(* "str" (not a dict).                                                     *)

Records == {"item:C", "item:D", "item:A"}

\* Coordinates(latitude=float(item.get("lat")), ...) / Address(...) of a
\* well-formed record.
FromItem(item) ==
    CASE item = "item:C" -> "C" [] item = "item:D" -> "D" [] item = "item:A" -> "A"

FromItems(items) == [i \in 1..Len(items) |-> FromItem(items[i])]

\* d.get(field, []) of a payload; a list has no get.
Field(data, field) ==
    IF Len(data) >= 2 /\ data[2] = field THEN SubSeq(data, 3, Len(data)) ELSE <<>>

FirstBad(items) ==
    LET bad == {i \in 1..Len(items) : items[i] \notin Records}
    IN  IF bad = {} THEN 0 ELSE CHOOSE i \in bad : \A j \in bad : i <= j

\* NominatimGeocoder.get_coordinates, after _make_request succeeded.
nominatim_coordinates(data) ==
    IF ~Truthy(data) THEN Failure(ErrNoCoordinates)
    ELSE IF data[1] = "dict" THEN Raised("AttributeError")
    ELSE LET items == Tail(data)
             b == FirstBad(items)
         IN  IF b = 0 THEN Success(PyList(FromItems(items)))
             ELSE IF items[b] = "nolat" THEN Failure(ErrInvalidFormat)
             ELSE Raised("AttributeError")

\* GeoapifyReverseGeocoder.get_addresses, after _make_request succeeded.
geoapify_addresses(data) ==
    IF data[1] = "list" THEN Raised("AttributeError")
    ELSE LET features == Field(data, "features")
             b == FirstBad(features)
         IN  IF features = <<>> THEN Failure(ErrNoAddressGeoapify)
             ELSE IF b = 0 THEN Success(PyList(FromItems(features)))
             ELSE IF features[b] = "noformatted" THEN Raised("ValidationError")
             ELSE Raised("AttributeError")

\* HereReverseGeocoder.get_addresses, after _make_request succeeded.
here_addresses(data) ==
    IF data[1] = "list" THEN Raised("AttributeError")
    ELSE LET items == Field(data, "items")
             b == FirstBad(items)
         IN  IF items = <<>> THEN Failure(ErrNoAddress)
             ELSE IF b = 0 THEN Success(PyList(FromItems(items)))
             ELSE Raised("AttributeError")

normalize(class, data) ==
    IF class = "NominatimGeocoder" THEN nominatim_coordinates(data)
    ELSE IF class = "GeoapifyReverseGeocoder" THEN geoapify_addresses(data)
    ELSE here_addresses(data)

\* NominatimGeocoder.get_coordinates, given what the awaited _make_request
\* returned: a Failure is returned as it is, a raise propagates.
get_coordinates(result) ==
    IF result.raised \/ ~result.ok THEN result
    ELSE nominatim_coordinates(result.value)

\* get_addresses of the three reverse adapters, given what _make_request
\* returns once awaited.  NominatimReverseGeocoder does not await it: it
\* calls is_failure() on the coroutine object, which has no such attribute.
get_addresses(class, result) ==
    IF class = "NominatimReverseGeocoder" THEN Raised("AttributeError")
    ELSE IF result.raised \/ ~result.ok THEN result
    ELSE normalize(class, result.value)

AdapterResult(class, result) ==
    IF class = "NominatimGeocoder" THEN get_coordinates(result)
    ELSE get_addresses(class, result)

-----------------------------------------------------------------------------
(* The stores                                                              *)

\* Tier-2: a table is a set of rows <<key, value>>.
EmptyMap == {}

\* SELECT value FROM table WHERE key = ?, fetchone()
Lookup(m, k) ==
    IF \E row \in m : row[1] = k
    THEN (CHOOSE row \in m : row[1] = k)[2]
    ELSE None

\* INSERT INTO table, without OR REPLACE and without the primary key.
Put_insert(m, k, v) == m \cup {<<k, v>>}

\* INSERT OR REPLACE INTO table, key being the PRIMARY KEY.
Put(m, k, v) == {row \in m : row[1] # k} \cup {<<k, v>>}

Tables == {"raw_responses", "final_responses"}

\* Tier-1: GET key, and SET key value EX ttl.  Every entry is written with
\* the same TTL, so the entries expire in the order they were written.
RedisValue(r, k) ==
    IF \E i \in 1..Len(r) : r[i][1] = k
    THEN r[CHOOSE i \in 1..Len(r) : r[i][1] = k][2]
    ELSE None

RedisWrite(r, k, v) == Append(SelectSeq(r, LAMBDA e : e[1] # k), <<k, v>>)

-----------------------------------------------------------------------------
(* A coroutine's frame                                                     *)
(* pc is the await the coroutine is suspended at: "redis_get",             *)
(* "sqlite_select", "redis_promote" (in _get), "redis_set",                *)
(* "sqlite_insert" (in _set), "http_get" (in _make_request); "idle" before *)
(* its first call and "done" once the call has returned or raised.  ret    *)
(* names the caller _get / _set return to.                                 *)

NoKey == <<"none", "none", <<"none">> >>

IdleTask ==
    [pc |-> "idle", op |-> "none", kind |-> "none", query |-> <<>>,
     platform |-> None, cache_key |-> NoKey, explicit |-> FALSE, idx |-> 0,
     ckey |-> NoKey, ctable |-> "none", cval |-> None, ret |-> "none",
     payload |-> None, status |-> "none", response |-> NoResponse,
     exception |-> "None", retval |-> None,
     \* What the call has done and seen, for the properties: the adapters
     \* invoked, how each ended ("success", "failure", "raised") and the
     \* last one's result; per invoked adapter what its request was answered
     \* with; the network calls and tier-2 reads; whether none, some or all
     \* backend operations raised; the cache entries _set or the promotion
     \* was run for; what the lookup of the call's own key found in each tier.
     invoked |-> <<>>, results |-> <<>>, last |-> Failure("None"),
     answers |-> <<>>, netcalls |-> 0, l2reads |-> 0, faults |-> "none",
     ops |-> 0, sets |-> {}, l1seen |-> None, l1err |-> FALSE,
     l2seen |-> None, l2err |-> FALSE,
     \* The geocode request as the endpoint received it, and the finished
     \* call before this one.
     request |-> <<>>, prev |-> <<>>]

Registry(kind) == IF kind = "geocode" THEN geocoders ELSE reversers

\* The call returns a response to its caller.
Return(tk, response) ==
    [tk EXCEPT !.pc = "done", !.status = "returned", !.response = response]

\* The call ends by an exception that nothing in the call chain catches.
Raise(tk, exception) ==
    [tk EXCEPT !.pc = "done", !.status = "raised", !.exception = exception]

\* CacheManager._get / _set are entered: the coroutine runs to the first
\* await, the tier-1 command.
StartGet(tk, key, table, ret) ==
    [tk EXCEPT !.pc = "redis_get", !.ckey = key, !.ctable = table,
               !.cval = None, !.ret = ret]

StartSet(tk, key, value_str, table, ret) ==
    [tk EXCEPT !.pc = "redis_set", !.ckey = key, !.ctable = table,
               !.cval = value_str, !.ret = ret,
               !.sets = @ \cup {<<table, key>>}]

\* set_final that files the entry under another key.
set_final_elsewhere(tk, key, value, ret) ==
    StartSet(tk, NoKey, json_dumps(value), "final_responses", ret)

\* CacheManager.set_final(key, value) up to its first await: a list whose
\* first element has model_dump is serialized as the list of the dicts.
value_to_serialize(value) ==
    LET items == Tail(value)
    IN  IF Truthy(value) /\ items[1] \in Models
        THEN PyList([i \in 1..Len(items) |-> model_dump(items[i])])
        ELSE value

set_final(tk, key, value, ret) ==
    StartSet(tk, key, json_dumps(value_to_serialize(value)), "final_responses", ret)

\* CacheManager.set_raw(key, value) up to its first await.
set_raw(tk, key, value, ret) ==
    StartSet(tk, key, json_dumps(value), "raw_responses", ret)

\* GeocodeResponse(success=True, data=...): the data validated as a list of
\* the response's model.
SuccessResponse(data) ==
    Response(TRUE, PyList([i \in 1..Len(data) - 1 |-> model_validate(data[i + 1])]), "None")

\* geocoder.get_coordinates(address) / get_addresses(coordinates) is entered
\* for registry entry i: params, raw key, and _make_request up to its first
\* await.  NominatimReverseGeocoder.get_addresses does not await
\* _make_request: it calls is_failure() on the coroutine object.
CallAdapter(tk, i) ==
    LET entry == Registry(tk.kind)[i]
        class == AdapterClass(tk.kind, entry)
        t1 == [tk EXCEPT !.idx = i, !.invoked = Append(@, entry),
                         !.last = Failure("None")]
    IN  IF class = "NominatimReverseGeocoder" THEN
            Raise([t1 EXCEPT !.last = Raised("AttributeError"),
                             !.results = Append(@, "raised")], "AttributeError")
        ELSE StartGet(t1, raw_cache_key(class, Params(class, tk.query)),
                      "raw_responses", "raw_get")

\* search that stores the outcome of the named adapter in the final cache
\* whether it succeeded or not.
AdapterReturned_cacheAll(tk0, result) ==
    LET tk == [tk0 EXCEPT !.last = result,
                          !.results = Append(@, IF result.raised THEN "raised"
                                                ELSE IF result.ok THEN "success"
                                                ELSE "failure")]
    IN  IF result.raised THEN Raise(tk, result.error)
        ELSE IF result.ok THEN
            LET response == SuccessResponse(result.value)
            IN  set_final([tk EXCEPT !.response = response], tk.cache_key,
                          response.data, "final_set")
        ELSE IF tk.explicit THEN
            set_final([tk EXCEPT !.response = Response(FALSE, None, result.error)],
                      tk.cache_key, PyList(<<>>), "final_set")
        ELSE IF tk.idx < Len(Registry(tk.kind)) THEN CallAdapter(tk, tk.idx + 1)
        ELSE Return(tk, Response(FALSE, None, ErrAllFailed))

\* The loop of search without its `return response`: after a success the
\* next adapter is still tried.
AdapterReturned_noStop(tk0, result) ==
    LET tk == [tk0 EXCEPT !.last = result,
                          !.results = Append(@, IF result.raised THEN "raised"
                                                ELSE IF result.ok THEN "success"
                                                ELSE "failure")]
    IN  IF result.raised THEN Raise(tk, result.error)
        ELSE IF tk.explicit THEN
            IF result.ok THEN Return(tk, SuccessResponse(result.value))
            ELSE Return(tk, Response(FALSE, None, result.error))
        ELSE IF tk.idx < Len(Registry(tk.kind)) THEN CallAdapter(tk, tk.idx + 1)
        ELSE IF result.ok THEN Return(tk, SuccessResponse(result.value))
        ELSE Return(tk, Response(FALSE, None, ErrAllFailed))

\* The loop of search that tries every failing adapter a second time before
\* it moves on.
AdapterReturned_again(tk0, result) ==
    LET tk == [tk0 EXCEPT !.last = result,
                          !.results = Append(@, IF result.raised THEN "raised"
                                                ELSE IF result.ok THEN "success"
                                                ELSE "failure")]
        once == Len(SelectSeq(tk.invoked,
                              LAMBDA e : e = Registry(tk.kind)[tk.idx])) = 1
    IN  IF result.raised THEN Raise(tk, result.error)
        ELSE IF result.ok THEN
            LET response == SuccessResponse(result.value)
            IN  set_final([tk EXCEPT !.response = response], tk.cache_key,
                          response.data, "final_set")
        ELSE IF tk.explicit THEN Return(tk, Response(FALSE, None, result.error))
        ELSE IF once THEN CallAdapter(tk, tk.idx)
        ELSE IF tk.idx < Len(Registry(tk.kind)) THEN CallAdapter(tk, tk.idx + 1)
        ELSE Return(tk, Response(FALSE, None, ErrAllFailed))

\* search that reports the last adapter's own error once the registry is
\* exhausted.
AdapterReturned_lastError(tk0, result) ==
    LET tk == [tk0 EXCEPT !.last = result,
                          !.results = Append(@, IF result.raised THEN "raised"
                                                ELSE IF result.ok THEN "success"
                                                ELSE "failure")]
    IN  IF result.raised THEN Raise(tk, result.error)
        ELSE IF result.ok THEN
            LET response == SuccessResponse(result.value)
            IN  set_final([tk EXCEPT !.response = response], tk.cache_key,
                          response.data, "final_set")
        ELSE IF tk.explicit THEN Return(tk, Response(FALSE, None, result.error))
        ELSE IF tk.idx < Len(Registry(tk.kind)) THEN CallAdapter(tk, tk.idx + 1)
        ELSE Return(tk, Response(FALSE, None, result.error))

\* The adapter returned `result` to search (or raised): on success the
\* response is built, set_final is awaited and the response returned.
AdapterReturned(tk0, result) ==
    LET tk == [tk0 EXCEPT !.last = result,
                          !.results = Append(@, IF result.raised THEN "raised"
                                                ELSE IF result.ok THEN "success"
                                                ELSE "failure")]
    IN  IF result.raised THEN Raise(tk, result.error)
        ELSE IF result.ok THEN
            LET response == SuccessResponse(result.value)
            IN  set_final([tk EXCEPT !.response = response], tk.cache_key,
                          response.data, "final_set")
        ELSE IF tk.explicit THEN Return(tk, Response(FALSE, None, result.error))
        ELSE IF tk.idx < Len(Registry(tk.kind)) THEN CallAdapter(tk, tk.idx + 1)
        ELSE Return(tk, Response(FALSE, None, ErrAllFailed))

\* _make_request returned `result` to get_coordinates / get_addresses.
RequestReturned(tk, result) ==
    AdapterReturned(tk,
        AdapterResult(AdapterClass(tk.kind, Registry(tk.kind)[tk.idx]), result))

\* search that runs the failover loop whether or not a platform is given.
AfterCacheMiss_failover(tk) ==
    IF Len(Registry(tk.kind)) = 0 THEN
        Return(tk, Response(FALSE, None, ErrNoGeocoders))
    ELSE CallAdapter(tk, 1)

\* search without the test for an empty registry: the loop over no adapter
\* falls through to the aggregate failure.
AfterCacheMiss_noEmptyTest(tk) ==
    IF TruthyStr(tk.platform) THEN
        LET name == Upper(tk.platform)
            reg  == Registry(tk.kind)
            hits == {i \in 1..Len(reg) : reg[i] = name}
        IN  IF hits = {} THEN Return(tk, Response(FALSE, None, ErrInvalidPlatform))
            ELSE CallAdapter([tk EXCEPT !.explicit = TRUE], CHOOSE i \in hits : TRUE)
    ELSE IF Len(Registry(tk.kind)) = 0 THEN
        Return(tk, Response(FALSE, None, ErrAllFailed))
    ELSE CallAdapter(tk, 1)

\* search that looks the platform up as it was spelled.
AfterCacheMiss_exactName(tk) ==
    IF TruthyStr(tk.platform) THEN
        LET name == tk.platform
            reg  == Registry(tk.kind)
            hits == {i \in 1..Len(reg) : reg[i] = name}
        IN  IF hits = {} THEN Return(tk, Response(FALSE, None, ErrInvalidPlatform))
            ELSE CallAdapter([tk EXCEPT !.explicit = TRUE], CHOOSE i \in hits : TRUE)
    ELSE IF Len(Registry(tk.kind)) = 0 THEN
        Return(tk, Response(FALSE, None, ErrNoGeocoders))
    ELSE CallAdapter(tk, 1)

\* search after the final-response cache missed.
AfterCacheMiss(tk) ==
    IF TruthyStr(tk.platform) THEN
        LET name == Upper(tk.platform)
            reg  == Registry(tk.kind)
            hits == {i \in 1..Len(reg) : reg[i] = name}
        IN  IF hits = {} THEN Return(tk, Response(FALSE, None, ErrInvalidPlatform))
            ELSE CallAdapter([tk EXCEPT !.explicit = TRUE], CHOOSE i \in hits : TRUE)
    ELSE IF Len(Registry(tk.kind)) = 0 THEN
        Return(tk, Response(FALSE, None, ErrNoGeocoders))
    ELSE CallAdapter(tk, 1)

\* search that does not look at what get_final returned.
GetReturned_miss(tk, value_str) ==
    LET loaded == IF TruthyStr(value_str) THEN json_loads(value_str) ELSE None
    IN  IF tk.ret = "final_get" THEN AfterCacheMiss(tk)
        ELSE IF tk.ret = "raw_get" THEN
            IF Truthy(loaded)
            THEN RequestReturned([tk EXCEPT !.answers = Append(@, <<"cached">>)],
                                 Success(loaded))
            ELSE [tk EXCEPT !.pc = "http_get"]
        ELSE Return([tk EXCEPT !.retval = loaded], NoResponse)

\* _get returned value_str (a text or None) to get_final / get_raw, which
\* returns json.loads(value_str) if value_str else None.
GetReturned(tk, value_str) ==
    LET loaded == IF TruthyStr(value_str) THEN json_loads(value_str) ELSE None
    IN  IF tk.ret = "final_get" THEN
            IF loaded # None THEN Return(tk, SuccessResponse(loaded))
            ELSE AfterCacheMiss(tk)
        ELSE IF tk.ret = "raw_get" THEN
            IF Truthy(loaded)
            THEN RequestReturned([tk EXCEPT !.answers = Append(@, <<"cached">>)],
                                 Success(loaded))
            ELSE [tk EXCEPT !.pc = "http_get"]
        ELSE Return([tk EXCEPT !.retval = loaded], NoResponse)

\* _set returned to set_final / set_raw.
SetReturned(tk) ==
    IF tk.ret = "final_set" THEN Return(tk, tk.response)
    ELSE IF tk.ret = "raw_set" THEN RequestReturned(tk, Success(tk.payload))
    ELSE Return(tk, NoResponse)

-----------------------------------------------------------------------------
(* Inputs                                                                  *)

Addresses == { <<"q">>, <<"Q", " ">> }

Coordinates == { <<12345671, 20000000>> }

Queries(kind) == IF kind = "geocode" THEN Addresses ELSE Coordinates

Platforms == { None, <<>>, Lower(sNOMINATIM), Lower(sHERE), sAny }

\* What the provider may answer with status 200.
Payloads(class) ==
    IF class = "NominatimGeocoder" THEN
        { PyList(<<"item:C">>), PyList(<<"item:D">>), PyList(<<>>),
          PyList(<<"nolat">>) }
    ELSE IF class = "GeoapifyReverseGeocoder" THEN
        { PyDict(<<"features", "item:A">>), PyDict(<<"features">>) }
    ELSE { PyDict(<<"items", "item:A">>), PyDict(<<"items">>) }

HttpFailures == {"timeout", "status429", "status500", "request_error", "bad_json"}

\* _make_request's except clauses; a body that is not JSON makes
\* response.json() raise json.JSONDecodeError, which none of them catches.
HttpResult(f) ==
    IF f = "timeout" THEN Failure(ErrTimeout)
    ELSE IF f = "status429" THEN Failure(ErrRateLimit)
    ELSE IF f = "status500" THEN Failure(ErrHttp)
    ELSE IF f = "request_error" THEN Failure(ErrRequest)
    ELSE Raised("JSONDecodeError")

-----------------------------------------------------------------------------
(* Steps of a coroutine                                                    *)

\* A command on the Redis client raises when the client is None
\* (AttributeError) and when the server is down; a closed client reconnects
\* on the next command.
RedisRaises == redis_client = "None" \/ ~redis_up

\* A statement on the SQLite connection raises when the connection is None
\* (AttributeError) or closed.
SqliteRaises == db_conn # "open"

\* History: whether none, some or all of the call's backend operations so
\* far have raised.
Faults(tk, raised) ==
    IF tk.ops = 0 THEN (IF raised THEN "all" ELSE "none")
    ELSE IF tk.faults = "all" /\ raised THEN "all"
    ELSE IF tk.faults = "none" /\ ~raised THEN "none"
    ELSE "some"

Log(tk, raised) == [tk EXCEPT !.faults = Faults(tk, raised), !.ops = 1]

\* What is kept of a finished call: a search that returned data, with the
\* final key and the data (and, of a geocode search, the address and the
\* platform selector it was called with); a cache call, with its key and
\* its value.
Summary(tk) ==
    IF tk.status = "cancelled" THEN <<>>
    ELSE IF tk.op = "search" /\ ~(tk.status = "returned" /\ tk.response.success) THEN <<>>
    ELSE << [op |-> tk.op,
             key |-> IF tk.op = "search" THEN tk.cache_key ELSE tk.ckey,
             request |-> tk.request,
             value |-> IF tk.op = "search" THEN tk.response.data
                       ELSE IF tk.op \in {"get_raw", "get_final"} THEN tk.retval
                       ELSE tk.payload,
             clean |-> tk.faults = "none",
             adapters |-> Len(tk.invoked),
             l2reads |-> tk.l2reads,
             fresh |-> TRUE] >>

NewCall(tk, op) == [IdleTask EXCEPT !.op = op, !.prev = tk.prev]

\* search(query, platform) of the orchestrator of `kind` is entered: the
\* final key is derived and get_final awaited.  `request` is what the call
\* is remembered by once it has finished.
Search(t, kind, query, platform, request) ==
    LET key == generate_cache_key(kind, query, platform)
        tk  == [NewCall(task[t], "search") EXCEPT
                   !.kind = kind, !.query = query,
                   !.platform = platform, !.cache_key = key,
                   !.request = request]
    IN  task' = [task EXCEPT ![t] =
                    StartGet(tk, key, "final_responses", "final_get")]

\* Geocoder.search / GeocoderReverser.search is called.
SearchCall(t) ==
    /\ task[t].pc = "idle"
    /\ calls < MaxSearches
    /\ \E kind \in {"geocode", "revgeo"} :
       \E query \in Queries(kind), platform \in Platforms :
          Search(t, kind, query, platform, <<>>)
    /\ calls' = calls + 1
    /\ UNCHANGED <<redis, sqlite, env, geocoders, reversers, environ, fn>>

\* Addresses and platform selectors that differ in letter case and in
\* surrounding whitespace only, an address that differs otherwise, and the
\* selectors a request can leave out, leave empty or leave blank.
SpelledAddresses == { <<"q">>, <<"Q", " ">>, <<"r">> }

SpelledPlatforms ==
    { None, <<>>, <<" ">>, Lower(sNOMINATIM), sNOMINATIM,
      <<"N">> \o Tail(Lower(sNOMINATIM)) \o <<" ">> }

\* GET /geocode with one of these spellings: Geocoder.search is called with
\* the address and the platform selector of the request.
GeocodeCall(t) ==
    /\ task[t].pc = "idle"
    /\ calls < MaxSearches
    /\ \E address \in SpelledAddresses, platform \in SpelledPlatforms :
          Search(t, "geocode", address, platform, <<address, platform>>)
    /\ calls' = calls + 1
    /\ UNCHANGED <<redis, sqlite, env, geocoders, reversers, environ, fn>>

\* What a caller may pass to set_raw and set_final: provider payloads, and
\* lists of models or of their dicts.
RawValues == { PyList(<<"item:C">>), PyList(<<>>), PyDict(<<"items", "item:A">>) }

FinalValues == { PyList(<<"C">>), PyList(<<"{D}">>) }

\* The keys the cache is called with: a final key and a raw key.
CacheKeys ==
    { generate_cache_key("geocode", <<"q">>, None),
      raw_cache_key("NominatimGeocoder", Params("NominatimGeocoder", <<"q">>)) }

\* get_raw, get_final, set_raw or set_final is called on the CacheManager.
CacheCall(t) ==
    /\ task[t].pc = "idle"
    /\ calls < MaxCalls
    /\ \E key \in CacheKeys :
          \/ \E op \in {"get_raw", "get_final"} :
                task' = [task EXCEPT ![t] =
                    StartGet(NewCall(task[t], op), key,
                             IF op = "get_raw" THEN "raw_responses" ELSE "final_responses",
                             "api_get")]
          \/ \E value \in RawValues :
                task' = [task EXCEPT ![t] =
                    set_raw([NewCall(task[t], "set_raw") EXCEPT !.payload = value],
                            key, value, "api_set")]
          \/ \E value \in FinalValues :
                task' = [task EXCEPT ![t] =
                    set_final([NewCall(task[t], "set_final") EXCEPT !.payload = value],
                              key, value, "api_set")]
    /\ calls' = calls + 1
    /\ UNCHANGED <<redis, sqlite, env, geocoders, reversers, environ, fn>>

\* The call's coroutine is finished and its frame is dropped.
Finish(t) ==
    /\ task[t].pc = "done"
    /\ task' = [task EXCEPT ![t] = [IdleTask EXCEPT !.prev = Summary(task[t])]]
    /\ UNCHANGED <<redis, sqlite, env, geocoders, reversers,
                   environ, calls, fn>>

\* _get: await self.redis_client.get(key)
RedisGet(t) ==
    /\ task[t].pc = "redis_get"
    /\ LET tk == task[t]
           raises == RedisRaises
           cached_value == RedisValue(redis, tk.ckey)
           t1 == [Log(tk, raises) EXCEPT
                     !.l1seen = IF tk.ret = "raw_get" THEN @ ELSE cached_value,
                     !.l1err = IF tk.ret = "raw_get" THEN @ ELSE raises]
       IN  task' = [task EXCEPT ![t] =
                       IF ~raises /\ TruthyStr(cached_value)
                       THEN GetReturned(t1, cached_value)
                       ELSE [t1 EXCEPT !.pc = "sqlite_select"]]
    /\ UNCHANGED <<redis, sqlite, env, geocoders, reversers, environ, calls, fn>>

\* _get: SELECT value FROM table WHERE key = ?, and fetchone()
SqliteSelect(t) ==
    /\ task[t].pc = "sqlite_select"
    /\ LET tk == task[t]
           raises == SqliteRaises
           row == Lookup(sqlite[tk.ctable], tk.ckey)
           t1 == [Log(tk, raises) EXCEPT
                     !.l2seen = IF tk.ret = "raw_get" THEN @ ELSE row,
                     !.l2err = IF tk.ret = "raw_get" THEN @ ELSE raises,
                     !.l2reads = @ + 1]
       IN  task' = [task EXCEPT ![t] =
                       IF raises \/ row = None
                       THEN GetReturned(t1, None)
                       ELSE [t1 EXCEPT !.pc = "redis_promote", !.cval = row]]
    /\ UNCHANGED <<redis, sqlite, env, geocoders, reversers, environ, calls, fn>>

\* _get without the promotion's write.
RedisPromote_skip(t) ==
    /\ task[t].pc = "redis_promote"
    /\ task' = [task EXCEPT ![t] = GetReturned(Log(task[t], FALSE), task[t].cval)]
    /\ UNCHANGED <<redis, sqlite, env, geocoders, reversers, environ, calls, fn>>

\* _get: promotion, await self.redis_client.set(key, value_str, ex=TTL)
RedisPromote(t) ==
    /\ task[t].pc = "redis_promote"
    /\ LET tk == task[t]
           raises == RedisRaises
           t1 == [Log(tk, raises) EXCEPT !.sets = @ \cup {<<tk.ctable, tk.ckey>>}]
       IN  /\ redis' = (IF raises THEN redis ELSE RedisWrite(redis, tk.ckey, tk.cval))
           /\ task' = [task EXCEPT ![t] = GetReturned(t1, tk.cval)]
    /\ UNCHANGED <<sqlite, env, geocoders, reversers, environ, calls, fn>>

\* _set that gives up when the tier-1 write raises.
RedisSet_abort(t) ==
    /\ task[t].pc = "redis_set"
    /\ LET tk == task[t]
           raises == RedisRaises
       IN  /\ redis' = (IF raises THEN redis ELSE RedisWrite(redis, tk.ckey, tk.cval))
           /\ task' = [task EXCEPT ![t] =
                          IF raises THEN SetReturned(Log(tk, raises))
                          ELSE [Log(tk, raises) EXCEPT !.pc = "sqlite_insert"]]
    /\ UNCHANGED <<sqlite, env, geocoders, reversers, environ, calls, fn>>

\* _set: await self.redis_client.set(key, value_str, ex=TTL)
RedisSet(t) ==
    /\ task[t].pc = "redis_set"
    /\ LET tk == task[t]
           raises == RedisRaises
       IN  /\ redis' = (IF raises THEN redis ELSE RedisWrite(redis, tk.ckey, tk.cval))
           /\ task' = [task EXCEPT ![t] = [Log(tk, raises) EXCEPT !.pc = "sqlite_insert"]]
    /\ UNCHANGED <<sqlite, env, geocoders, reversers, environ, calls, fn>>

\* _set without the tier-2 write.
SqliteInsert_skip(t) ==
    /\ task[t].pc = "sqlite_insert"
    /\ task' = [task EXCEPT ![t] = SetReturned(Log(task[t], FALSE))]
    /\ UNCHANGED <<redis, sqlite, env, geocoders, reversers, environ, calls, fn>>

\* _set: INSERT OR REPLACE INTO table, and commit()
SqliteInsert(t) ==
    /\ task[t].pc = "sqlite_insert"
    /\ LET tk == task[t]
           raises == SqliteRaises
       IN  /\ sqlite' = (IF raises THEN sqlite
                         ELSE [sqlite EXCEPT ![tk.ctable] = Put(@, tk.ckey, tk.cval)])
           /\ task' = [task EXCEPT ![t] = SetReturned(Log(tk, raises))]
    /\ UNCHANGED <<redis, env, geocoders, reversers, environ, calls, fn>>

\* _make_request: await client.get(url, params=..., timeout=..., headers=...)
\* with raise_for_status() and response.json(), up to the await in set_raw.
HttpGet(t) ==
    /\ task[t].pc = "http_get"
    /\ LET tk == task[t]
           entry == Registry(tk.kind)[tk.idx]
           class == AdapterClass(tk.kind, entry)
           t1 == [tk EXCEPT !.netcalls = @ + 1]
       IN  IF ~UrlIsSet(tk.kind, entry)
           THEN task' = [task EXCEPT ![t] = AdapterReturned(tk, Raised("TypeError"))]
           ELSE \/ \E f \in HttpFailures :
                      LET t2 == [t1 EXCEPT !.answers = Append(@, <<f>>)]
                      IN  task' = [task EXCEPT ![t] = RequestReturned(t2, HttpResult(f))]
                \/ \E response_data \in Payloads(class) :
                      task' = [task EXCEPT ![t] =
                          set_raw([t1 EXCEPT !.payload = response_data,
                                             !.answers = Append(@, response_data)],
                                  tk.ckey, response_data, "raw_set")]
    /\ UNCHANGED <<redis, sqlite, env, geocoders, reversers,
                   environ, calls, fn>>

\* The awaits a coroutine can be suspended at.
Awaits ==
    {"redis_get", "sqlite_select", "redis_promote", "redis_set",
     "sqlite_insert", "http_get"}

\* The coroutine is cancelled, or the process dies, while it is suspended:
\* asyncio.CancelledError is a BaseException, which the `except Exception`
\* clauses of _get / _set do not catch, so nothing after the await runs.
Cancel(t) ==
    /\ task[t].pc \in Awaits
    /\ task' = [task EXCEPT ![t] =
                   [@ EXCEPT !.pc = "done", !.status = "cancelled",
                             !.exception = "CancelledError"]]
    /\ UNCHANGED <<redis, sqlite, env, geocoders, reversers, environ, calls, fn>>

-----------------------------------------------------------------------------
(* The environment                                                         *)

\* Something happened to the cache since the previous call returned.
Stale(tsk) ==
    [t \in DOMAIN tsk |->
        [tsk[t] EXCEPT !.prev = IF @ = <<>> THEN @ ELSE <<[@[1] EXCEPT !.fresh = FALSE]>>]]

\* No request is in flight.  The environment moves between requests.
Quiescent == \A t \in DOMAIN task : task[t].pc = "idle"

\* The tier-1 TTL (REDIS_TTL_SECONDS) of the oldest entry elapses.
Expire ==
    /\ Quiescent
    /\ redis # <<>>
    /\ redis' = Tail(redis)
    /\ task' = Stale(task)
    /\ UNCHANGED <<sqlite, env, geocoders, reversers, environ, calls, fn>>

\* CacheManager.lifespan: startup (redis.from_url and setup()), before the
\* first request is served.
Startup ==
    /\ Quiescent
    /\ calls = 0
    /\ redis_client = "None"
    /\ redis_client' = "open"
    /\ db_conn' = "open"
    /\ task' = Stale(task)
    /\ UNCHANGED <<redis, sqlite, redis_up, geocoders, reversers,
                   environ, calls, fn>>

\* CacheManager.lifespan: shutdown (close()).
Shutdown ==
    /\ Quiescent
    /\ redis_client = "open"
    /\ redis_client' = "closed"
    /\ db_conn' = "closed"
    /\ task' = Stale(task)
    /\ UNCHANGED <<redis, sqlite, redis_up, geocoders, reversers,
                   environ, calls, fn>>

\* The Redis server goes down or comes back.
RedisOutage ==
    /\ Quiescent
    /\ redis_up' = ~redis_up
    /\ task' = Stale(task)
    /\ UNCHANGED <<redis, sqlite, redis_client, db_conn, geocoders,
                   reversers, environ, calls, fn>>

-----------------------------------------------------------------------------
(* The orchestrators, one request at a time                                *)

\* The registries search runs over and the environment they were built in:
\* what the constructors build, and the shorter registries the `geocoders`
\* attribute holds where a provider is not deployed.
Configurations ==
    { [geocoders |-> <<>>, reversers |-> <<>>, environ |-> {}],
      [geocoders |-> GeocoderEntries, reversers |-> <<>>,
       environ |-> {"NOMINATIM_GEOCODER_REPLICA_URL_1"}],
      [geocoders |-> GeocoderEntries, reversers |-> <<>>, environ |-> {}],
      [geocoders |-> <<>>, reversers |-> <<sGEOAPIFY, sHERE>>, environ |-> {}],
      [geocoders |-> <<>>, reversers |-> ReverserEntries, environ |-> {}] }

Init ==
    /\ redis = <<>>
    /\ sqlite = [tb \in Tables |-> EmptyMap]
    /\ redis_client = "None"
    /\ db_conn = "None"
    /\ redis_up = TRUE
    /\ \E c \in Configurations :
          /\ geocoders = c.geocoders
          /\ reversers = c.reversers
          /\ environ = c.environ
    /\ task = [t \in {"t1"} |-> IdleTask]
    /\ calls = 0
    /\ args = NoCall
    /\ out = None

Next ==
    \/ \E t \in DOMAIN task : SearchCall(t)
    \/ \E t \in DOMAIN task : Finish(t)
    \/ \E t \in DOMAIN task : RedisGet(t)
    \/ \E t \in DOMAIN task : SqliteSelect(t)
    \/ \E t \in DOMAIN task : RedisPromote(t)
    \/ \E t \in DOMAIN task : RedisSet(t)
    \/ \E t \in DOMAIN task : SqliteInsert(t)
    \/ \E t \in DOMAIN task : HttpGet(t)
    \/ Expire
    \/ Startup
    \/ Shutdown
    \/ RedisOutage

Spec == Init /\ [][Next]_vars

\* The orchestrators while the service is up: the lifespan has opened both
\* cache connections, and requests are served one after the other.
ServingInit ==
    /\ redis = <<>>
    /\ sqlite = [tb \in Tables |-> EmptyMap]
    /\ redis_client = "open"
    /\ db_conn = "open"
    /\ redis_up = TRUE
    /\ \E c \in Configurations :
          /\ geocoders = c.geocoders
          /\ reversers = c.reversers
          /\ environ = c.environ
    /\ task = [t \in {"t1"} |-> IdleTask]
    /\ calls = 0
    /\ args = NoCall
    /\ out = None

\* The coroutine of t is resumed at the await it is suspended at.
Resume(t) ==
    \/ RedisGet(t)
    \/ SqliteSelect(t)
    \/ RedisPromote(t)
    \/ RedisSet(t)
    \/ SqliteInsert(t)
    \/ HttpGet(t)

ServingNext ==
    \/ \E t \in DOMAIN task : SearchCall(t)
    \/ \E t \in DOMAIN task : Finish(t)
    \/ \E t \in DOMAIN task : Resume(t)
    \/ RedisOutage

\* The event loop resumes a coroutine once the operation it awaits has
\* returned, and every tier-1, tier-2 and HTTP operation returns: weak
\* fairness of Resume(t).  Resume(t) is enabled exactly while t is suspended
\* at an await, so the fairness condition is written with that state
\* predicate in the place of ENABLED <<Resume(t)>>_vars.
Resumed ==
    \A t \in {"t1"} :
        \/ []<>(task[t].pc \notin Awaits)
        \/ []<><<Resume(t)>>_vars

ServingSpec == ServingInit /\ [][ServingNext]_vars /\ Resumed

-----------------------------------------------------------------------------
(* Geocoder alone, fully configured, called with differently spelled       *)
(* addresses and platform selectors                                        *)

GeocodeInit ==
    /\ redis = <<>>
    /\ sqlite = [tb \in Tables |-> EmptyMap]
    /\ redis_client = "None"
    /\ db_conn = "None"
    /\ redis_up = TRUE
    /\ geocoders = GeocoderEntries
    /\ reversers = <<>>
    /\ environ = {"NOMINATIM_GEOCODER_REPLICA_URL_1"}
    /\ task = [t \in {"t1"} |-> IdleTask]
    /\ calls = 0
    /\ args = NoCall
    /\ out = None

GeocodeNext ==
    \/ \E t \in DOMAIN task : GeocodeCall(t)
    \/ \E t \in DOMAIN task : Finish(t)
    \/ \E t \in DOMAIN task : RedisGet(t)
    \/ \E t \in DOMAIN task : SqliteSelect(t)
    \/ \E t \in DOMAIN task : RedisPromote(t)
    \/ \E t \in DOMAIN task : RedisSet(t)
    \/ \E t \in DOMAIN task : SqliteInsert(t)
    \/ \E t \in DOMAIN task : HttpGet(t)
    \/ Expire
    \/ Startup
    \/ Shutdown
    \/ RedisOutage

GeocodeSpec == GeocodeInit /\ [][GeocodeNext]_vars

-----------------------------------------------------------------------------
(* The CacheManager alone, called through its four public methods          *)

CacheInit ==
    /\ redis = <<>>
    /\ sqlite = [tb \in Tables |-> EmptyMap]
    /\ redis_client = "None"
    /\ db_conn = "None"
    /\ redis_up = TRUE
    /\ geocoders = <<>>
    /\ reversers = <<>>
    /\ environ = {}
    /\ task = [t \in {"t1"} |-> IdleTask]
    /\ calls = 0
    /\ args = NoCall
    /\ out = None

CacheNext ==
    \/ \E t \in DOMAIN task : CacheCall(t)
    \/ \E t \in DOMAIN task : Finish(t)
    \/ \E t \in DOMAIN task : RedisGet(t)
    \/ \E t \in DOMAIN task : SqliteSelect(t)
    \/ \E t \in DOMAIN task : RedisPromote(t)
    \/ \E t \in DOMAIN task : RedisSet(t)
    \/ \E t \in DOMAIN task : SqliteInsert(t)
    \/ Expire
    \/ Startup
    \/ Shutdown
    \/ RedisOutage

CacheSpec == CacheInit /\ [][CacheNext]_vars

\* The CacheManager called from two coroutines, as the requests of two
\* clients call it: both connections open and working, tier-1 empty, and
\* tier-2 either empty or holding an entry of an earlier day under each key.
OldEntry == json_dumps(PyList(<<"{A}">>))

ConcurrentInit ==
    /\ redis = <<>>
    /\ \E rows \in { EmptyMap, {<<k, OldEntry>> : k \in CacheKeys} } :
          sqlite = [tb \in Tables |-> rows]
    /\ redis_client = "open"
    /\ db_conn = "open"
    /\ redis_up = TRUE
    /\ geocoders = <<>>
    /\ reversers = <<>>
    /\ environ = {}
    /\ task = [t \in {"t1", "t2"} |-> IdleTask]
    /\ calls = 0
    /\ args = NoCall
    /\ out = None

ConcurrentCall(t) ==
    /\ calls < MaxOverlappingCalls
    /\ CacheCall(t)

\* The event loop runs one coroutine at a time and switches at the awaits.
ConcurrentNext ==
    \/ \E t \in DOMAIN task : ConcurrentCall(t)
    \/ \E t \in DOMAIN task : Finish(t)
    \/ \E t \in DOMAIN task : RedisGet(t)
    \/ \E t \in DOMAIN task : SqliteSelect(t)
    \/ \E t \in DOMAIN task : RedisPromote(t)
    \/ \E t \in DOMAIN task : RedisSet(t)
    \/ \E t \in DOMAIN task : SqliteInsert(t)

ConcurrentSpec == ConcurrentInit /\ [][ConcurrentNext]_vars

\* The CacheManager alone, its calls open to cancellation.
CancelNext ==
    \/ CacheNext
    \/ \E t \in DOMAIN task : Cancel(t)

CancelSpec == CacheInit /\ [][CancelNext]_vars

-----------------------------------------------------------------------------
(* Functions called on their own, as a unit test calls them                *)

Classes ==
    {"NominatimGeocoder", "GeoapifyReverseGeocoder", "HereReverseGeocoder",
     "NominatimReverseGeocoder"}

\* The record field of a provider payload each adapter reads.
RecordField(class) ==
    IF class = "GeoapifyReverseGeocoder" THEN "features"
    ELSE IF class = "HereReverseGeocoder" THEN "items"
    ELSE "address"

\* Well-formed answers without a record: [] for the list-shaped payload,
\* {} and {field: []} for the dict-shaped ones.
EmptyAnswers(class) ==
    IF class = "NominatimGeocoder" THEN { PyList(<<>>) }
    ELSE { PyDict(<<>>), PyDict(<<RecordField(class)>>) }

\* What _make_request may hand to the adapter: each Failure of its except
\* clauses, and a Success with a payload that is well-formed, empty, or
\* malformed (a record without its fields, a record that is no dict, a
\* payload of the other shape).
RequestResults(class) ==
    {Failure(e) : e \in {ErrTimeout, ErrRateLimit, ErrHttp, ErrRequest}}
    \cup {Success(p) : p \in EmptyAnswers(class)}
    \cup {Success(p) : p \in
            IF class = "NominatimGeocoder" THEN
                { PyList(<<"item:C">>), PyList(<<"item:C", "item:D">>),
                  PyList(<<"nolat">>), PyList(<<"item:C", "str">>),
                  PyDict(<<"error">>) }
            ELSE { PyDict(<<RecordField(class), "item:A">>),
                   PyDict(<<RecordField(class), "item:A", "item:A">>),
                   PyDict(<<RecordField(class), "str">>),
                   PyList(<<"item:A">>) }}

\* get_coordinates / get_addresses is called on an adapter whose
\* _make_request is set to return `result`.
CallAdapterMethod ==
    /\ args = NoCall
    /\ \E class \in Classes :
       \E result \in RequestResults(class) :
          /\ args' = [fn |-> "get_records", class |-> class, result |-> result]
          /\ out' = AdapterResult(class, result)
    /\ UNCHANGED <<redis, sqlite, env, geocoders, reversers, environ, task, calls>>

\* The orders a dict of n entries can be filled in.
InsertionOrders(n) == {f \in [1..n -> 1..n] : \A i, j \in 1..n : f[i] = f[j] => i = j}

Reordered(params, f) == [i \in 1..Len(params) |-> params[f[i]]]

\* The coordinates and the address the adapters' params are built from here.
SampleQuery(class) ==
    IF class = "NominatimGeocoder" THEN <<"q">> ELSE <<12345671, 20000000>>

\* The order the source writes the dict in, and the opposite one.
SourceOrders(n) == { [i \in 1..n |-> i], [i \in 1..n |-> n + 1 - i] }

\* _generate_cache_key(params) is called twice on an adapter, with two
\* dicts holding the adapter's params: one filled in any order, one in the
\* source's order or its reverse.
CallRawKeyTwice ==
    /\ args = NoCall
    /\ \E class \in Classes :
          LET params == Params(class, SampleQuery(class))
          IN  \E f \in InsertionOrders(Len(params)), g \in SourceOrders(Len(params)) :
                 /\ args' = [fn |-> "_generate_cache_key", class |-> class,
                              first |-> Reordered(params, f),
                              second |-> Reordered(params, g)]
                 /\ out' = << raw_cache_key(class, Reordered(params, f)),
                              raw_cache_key(class, Reordered(params, g)) >>
    /\ UNCHANGED <<redis, sqlite, env, geocoders, reversers, environ, task, calls>>

\* Latitudes and longitudes in 10^-7 degrees: values that share their first
\* six decimals and round down (7th digit 1, 4) or up (6, 9), a value whose
\* sixth decimal differs, and two values on either side of 2.000000.  A 7th
\* digit of 5 is left out: there the float's binary value decides.
KeyLatitudes == {12345671, 12345674, 12345676, 12345681}

KeyLongitudes == {19999996, 20000004}

\* GeocoderReverser._generate_cache_key is called for two coordinates with
\* the same platform selector.
CallReverseKeyTwice ==
    /\ args = NoCall
    /\ \E lat1, lat2 \in KeyLatitudes, lon1, lon2 \in KeyLongitudes, platform \in Platforms :
          /\ args' = [fn |-> "reverse_key", platform |-> platform,
                       first |-> <<lat1, lon1>>, second |-> <<lat2, lon2>>]
          /\ out' = << generate_cache_key("revgeo", <<lat1, lon1>>, platform),
                       generate_cache_key("revgeo", <<lat2, lon2>>, platform) >>
    /\ UNCHANGED <<redis, sqlite, env, geocoders, reversers, environ, task, calls>>

\* The variables os.getenv is called with.
EnvNames ==
    {"GEOAPIFY_API_KEY", "HERE_API_KEY", "NOMINATIM_USER_AGENT",
     "NOMINATIM_GEOCODER_REPLICA_URL_1", "NOMINATIM_REVERSER_REPLICA_URL_1"}

\* An adapter object: its registry name, its class and its settings url,
\* user_agent and api_key.  A setting is the string read from the
\* environment, None, Literal (a default or class-level value written in
\* the source) or NoAttribute (the class has no such setting).
Literal == <<"literal">>

NoAttribute == <<"n/a">>

Adapter(name, class, url, user_agent, api_key) ==
    <<name, class, url, user_agent, api_key>>

Url(adapter) == adapter[3]

ApiKey(adapter) == adapter[5]

Constructed(registry) == [raised |-> FALSE, exception |-> "None", registry |-> registry]

ConstructorRaised(exception) == [raised |-> TRUE, exception |-> exception, registry |-> <<>>]

\* Geocoder.__init__: the dict literal, then the comprehension that keeps
\* the entries that are not None (every entry is an object, so all are kept).
Geocoder_init ==
    LET entries ==
            << Adapter(sNOMINATIM, "NominatimGeocoder", Literal,
                       Getenv("NOMINATIM_USER_AGENT"), NoAttribute),
               Adapter(sNOMINATIM_REPLICA_1, "NominatimGeocoder",
                       Getenv("NOMINATIM_GEOCODER_REPLICA_URL_1"),
                       Getenv("NOMINATIM_USER_AGENT"), NoAttribute) >>
    IN  Constructed(SelectSeq(entries, LAMBDA geocoder : geocoder # None))

\* GeocoderReverser.__init__: the dict literal is evaluated entry by entry;
\* NominatimReverseGeocoder.__init__(self, url=..., /, user_agent=...) has no
\* `cache` parameter, so the third entry's call raises TypeError and the
\* constructor ends there.
GeocoderReverser_init ==
    LET geoapify == Adapter(sGEOAPIFY, "GeoapifyReverseGeocoder", Literal, NoAttribute,
                            Getenv("GEOAPIFY_API_KEY"))
        here     == Adapter(sHERE, "HereReverseGeocoder", Literal, NoAttribute,
                            Getenv("HERE_API_KEY"))
        accepted == {"url", "user_agent"}
        passed   == {"cache", "user_agent"}
    IN  IF passed \subseteq accepted
        THEN Constructed(<<geoapify, here>>)
        ELSE ConstructorRaised("TypeError")

\* Geocoder(cache=...) or GeocoderReverser(cache=...) is called in the
\* current environment.
Construct ==
    /\ args = NoCall
    /\ \E kind \in {"geocode", "revgeo"} :
          /\ args' = [fn |-> "__init__", kind |-> kind]
          /\ out' = IF kind = "geocode" THEN Geocoder_init ELSE GeocoderReverser_init
    /\ UNCHANGED <<redis, sqlite, env, geocoders, reversers, environ, task, calls>>

\* One variable of the process environment is set or unset between calls.
Setenv ==
    /\ args = NoCall
    /\ \E v \in EnvNames :
          environ' = IF v \in environ THEN environ \ {v} ELSE environ \cup {v}
    /\ UNCHANGED <<redis, sqlite, env, geocoders, reversers, task, calls, fn>>

\* Success / Failure as objects of the Result classes.  A method that takes
\* a function returns what it returns and how often it called the function.
is_success(self) == IF self.ok THEN TRUE ELSE FALSE

is_failure(self) == IF self.ok THEN FALSE ELSE TRUE

unwrap(self) == IF self.ok THEN self.value ELSE Raised("ResultException")

unwrap_err(self) == IF self.ok THEN Raised("ResultException") ELSE self.error

\* The functions handed to map, flat_map and map_err.
Funcs(method) ==
    IF method = "map" THEN {"same", "empty"}
    ELSE IF method = "flat_map" THEN {"succeed", "fail"}
    ELSE {"same", "timeout"}

Apply(func, x) ==
    IF func = "same" THEN x
    ELSE IF func = "empty" THEN PyList(<<>>)
    ELSE IF func = "succeed" THEN Success(x)
    ELSE IF func = "fail" THEN Failure(ErrRequest)
    ELSE ErrTimeout

Returned(result, n) == [result |-> result, calls |-> n]

\* Failure.map that applies the function to the error.
Result_map_onFailure(self, func) ==
    IF self.ok THEN Returned(Success(Apply(func, self.value)), 1)
    ELSE Returned(Failure(Apply(func, self.error)), 1)

Result_map(self, func) ==
    IF self.ok THEN Returned(Success(Apply(func, self.value)), 1)
    ELSE Returned(self, 0)

Result_flat_map(self, func) ==
    IF self.ok THEN Returned(Apply(func, self.value), 1)
    ELSE Returned(self, 0)

Result_map_err(self, func) ==
    IF self.ok THEN Returned(self, 0)
    ELSE Returned(Failure(Apply(func, self.error)), 1)

\* The Results the methods are called on.
Results ==
    { Success(PyList(<<"item:C">>)), Success(PyList(<<>>)),
      Failure(ErrRateLimit), Failure(ErrNoAddress) }

\* map, flat_map or map_err is called on a Result.
CallResultMethod ==
    /\ args = NoCall
    /\ \E self \in Results, method \in {"map", "flat_map", "map_err"} :
       \E func \in Funcs(method) :
          /\ args' = [fn |-> "result", self |-> self, method |-> method,
                      func |-> func]
          /\ out' = (IF method = "map" THEN Result_map(self, func)
                     ELSE IF method = "flat_map" THEN Result_flat_map(self, func)
                     ELSE Result_map_err(self, func))
    /\ UNCHANGED <<redis, sqlite, env, geocoders, reversers, environ, task, calls>>

\* str.replace(old, new) for a two-character `old`: the occurrences are
\* replaced from the left and the replacement is not scanned again.
RECURSIVE str_replace(_, _, _)
str_replace(text, old, new) ==
    IF Len(text) < 2 THEN text
    ELSE IF SubSeq(text, 1, 2) = old
         THEN new \o str_replace(SubSeq(text, 3, Len(text)), old, new)
         ELSE <<text[1]>> \o str_replace(Tail(text), old, new)

\* str.split(","): the texts between the commas, empty ones included.
RECURSIVE str_split(_)
str_split(text) ==
    IF \A i \in 1..Len(text) : text[i] # ","
    THEN <<text>>
    ELSE LET i == CHOOSE k \in 1..Len(text) :
                     text[k] = "," /\ \A j \in 1..k - 1 : text[j] # ","
         IN  <<SubSeq(text, 1, i - 1)>> \o str_split(SubSeq(text, i + 1, Len(text)))

\* ", ".join(parts)
RECURSIVE str_join(_)
str_join(parts) ==
    IF parts = <<>> THEN <<>>
    ELSE IF Len(parts) = 1 THEN parts[1]
    ELSE parts[1] \o <<",", " ">> \o str_join(Tail(parts))

\* The placeholders of format_address in the order of its mapping, each
\* with the field it stands for.
Placeholders ==
    << <<"p", "postcode">>, <<"c", "country">>, <<"s", "state">>,
       <<"d", "district">>, <<"t", "settlement">>, <<"u", "suburb">>,
       <<"r", "street">>, <<"h", "house">> >>

OptionalFields == {Placeholders[i][2] : i \in 1..Len(Placeholders)}

\* The loop of format_address over the first n placeholders.
RECURSIVE Replaced(_, _, _)
Replaced(self, format_string, n) ==
    IF n = 0 THEN format_string
    ELSE LET value == self[Placeholders[n][2]]
         IN  str_replace(Replaced(self, format_string, n - 1),
                         <<"%", Placeholders[n][1]>>,
                         IF TruthyStr(value) THEN value ELSE <<>>)

\* Address.format_address(format_string)
format_address(self, format_string) ==
    LET result == Replaced(self, format_string, Len(Placeholders))
        split  == str_split(result)
        kept   == SelectSeq(split, LAMBDA part : Strip(part) # <<>>)
        parts  == [i \in 1..Len(kept) |-> Strip(kept[i])]
    IN  Strip(str_join(parts))

\* format_address_robust without its test of the fields.
format_address_robust_noTest(self, format_string) ==
    format_address(self, format_string)

\* Address.format_address_robust(format_string)
format_address_robust(self, format_string) ==
    LET formatted == format_address(self, format_string)
    IN  IF ~ \E f \in OptionalFields : TruthyStr(self[f])
        THEN <<>>
        ELSE formatted

\* The default format string, "%h %r, %t, %s, %c", and one with a text of
\* its own, "At %r,%p".
DefaultFormat ==
    <<"%", "h", " ", "%", "r", ",", " ", "%", "t", ",", " ",
      "%", "s", ",", " ", "%", "c">>

FormatStrings == { DefaultFormat, <<"A", "t", " ", "%", "r", ",", "%", "p">> }

\* Address objects: every optional field absent or set, some of them also
\* to the empty string, to a blank or to a text with a comma, and the
\* formatted_address empty or populated.
AddressObjects ==
    [ formatted_address : { <<>>, <<"o", "l", "d">> },
      postcode   : { None, <<"1", "7">> },
      country    : { None, <<>>, <<"E", "c">> },
      state      : { None, <<"P">> },
      district   : { None, <<"D">> },
      settlement : { None, <<"Q">> },
      suburb     : { None, <<"U">> },
      street     : { None, <<>>, <<" ">>, <<"A", "v", ",", " ", "6">> },
      house      : { None, <<" ">>, <<"N", "1">> } ]

\* format_address and format_address_robust are called on an Address.
CallFormatAddress ==
    /\ args = NoCall
    /\ \E self \in AddressObjects, format_string \in FormatStrings :
          /\ args' = [fn |-> "format_address", self |-> self,
                      format_string |-> format_string]
          /\ out' = [formatted |-> format_address(self, format_string),
                     robust |-> format_address_robust(self, format_string)]
    /\ UNCHANGED <<redis, sqlite, env, geocoders, reversers, environ, task, calls>>

\* The requests whose final keys are compared: addresses with and without
\* the separator, the selector absent, named any, and holding the separator.
KeyedAddresses == { <<"q">>, <<"Q", ":", "r">> }

KeyedPlatforms ==
    { None, sAny, <<"r", ":">> \o sAny, Lower(sNOMINATIM), sNOMINATIM }

KeyedRequests ==
    {<<"geocode", address, platform>> :
        address \in KeyedAddresses, platform \in KeyedPlatforms}
    \cup {<<"revgeo", coordinates, platform>> :
        coordinates \in Coordinates, platform \in KeyedPlatforms}

\* _generate_cache_key is called for two requests of one orchestrator.
CallFinalKeyTwice ==
    /\ args = NoCall
    /\ \E first \in KeyedRequests, second \in KeyedRequests :
          /\ first[1] = second[1]
          /\ args' = [fn |-> "generate_cache_key", first |-> first,
                      second |-> second]
          /\ out' = [first |-> key_string(first[1], first[2], first[3]),
                     second |-> key_string(second[1], second[2], second[3]),
                     keys |-> <<generate_cache_key(first[1], first[2], first[3]),
                                generate_cache_key(second[1], second[2], second[3])>>]
    /\ UNCHANGED <<redis, sqlite, env, geocoders, reversers, environ, task, calls>>

\* The caller is done with what the call returned.
Forget ==
    /\ args # NoCall
    /\ args' = NoCall
    /\ out' = None
    /\ UNCHANGED <<redis, sqlite, env, geocoders, reversers, environ, task, calls>>

FunctionNext ==
    \/ CallAdapterMethod
    \/ CallRawKeyTwice
    \/ CallReverseKeyTwice
    \/ CallResultMethod
    \/ CallFormatAddress
    \/ CallFinalKeyTwice
    \/ Construct
    \/ Setenv
    \/ Forget

FunctionSpec == CacheInit /\ [][FunctionNext]_vars

-----------------------------------------------------------------------------
(* Properties of search                                                    *)

Names(reg) == {reg[i] : i \in 1..Len(reg)}

\* The platform argument names a registry entry, as search looks it up.
Named(tk) == TruthyStr(tk.platform) /\ Upper(tk.platform) \in Names(Registry(tk.kind))

\* A list with every model replaced by its dict.
Dumped(data) == PyList([i \in 1..Len(data) - 1 |-> model_dump(data[i + 1])])

NoFinalWrite(tk) == \A w \in tk.sets : w[1] # "final_responses"

\* C1: whenever the final-response cache holds an entry under the search's
\* key, in a tier the lookup reads without error, search returns
\* success=True with the data of that entry, invokes no adapter and makes no
\* network call, whatever the platform argument is.
C1_CacheShortCircuit ==
    \A t \in DOMAIN task :
        LET tk == task[t]
            hit1 == tk.l1seen # None /\ ~tk.l1err
            hit2 == tk.l2seen # None /\ ~tk.l2err
            entry == IF hit1 THEN tk.l1seen ELSE tk.l2seen
        IN  (tk.op = "search" /\ tk.pc = "done" /\ (hit1 \/ hit2)) =>
               /\ tk.status = "returned"
               /\ tk.response.success
               /\ tk.response.error = "None"
               /\ json_dumps(Dumped(tk.response.data)) = entry
               /\ tk.invoked = <<>>
               /\ tk.netcalls = 0

\* A search served from the cache although its platform names no adapter.
C1_Witness ==
    \E t \in DOMAIN task :
        LET tk == task[t]
        IN  /\ tk.op = "search" /\ tk.pc = "done"
            /\ tk.l1seen # None /\ ~tk.l1err
            /\ TruthyStr(tk.platform) /\ ~Named(tk)
            /\ tk.response.success /\ tk.invoked = <<>>

\* C2: in a search without platform, the adapters invoked are the first
\* entries of the registry in insertion order; at most one invoked adapter
\* has not returned yet; every adapter before the last invoked one returned
\* a Failure; an adapter that returned Success is the last one invoked, and
\* the search returns its value as the data.
C2_FailoverOrder ==
    \A t \in DOMAIN task :
        LET tk == task[t]
            n == Len(tk.invoked)
            m == Len(tk.results)
        IN  (tk.op = "search" /\ ~TruthyStr(tk.platform)) =>
               /\ n <= Len(Registry(tk.kind))
               /\ tk.invoked = SubSeq(Registry(tk.kind), 1, n)
               /\ m \in {n - 1, n} /\ m >= 0
               /\ \A i \in 1..m : i < n => tk.results[i] = "failure"
               /\ \A i \in 1..m : tk.results[i] = "success" =>
                     /\ i = n
                     /\ tk.response = Response(TRUE, tk.last.value, "None")
                     /\ tk.pc = "done" => tk.status = "returned"

\* The second adapter of the registry succeeded after the first failed.
C2_Witness ==
    \E t \in DOMAIN task :
        LET tk == task[t]
        IN  /\ tk.op = "search" /\ tk.pc = "done" /\ ~TruthyStr(tk.platform)
            /\ tk.results = <<"failure", "success">>
            /\ tk.response.success

\* C3: after a search that got its data from an adapter and stored it, with
\* a healthy cache and no expiry since, a search with the same key (the
\* same query and platform) returns the same value and invokes no adapter.
C3_FailoverResultCached ==
    \A t \in DOMAIN task :
        LET tk == task[t]
        IN  (/\ tk.op = "search" /\ tk.pc = "done" /\ tk.faults = "none"
             /\ tk.prev # <<>>
             /\ tk.prev[1].op = "search" /\ tk.prev[1].key = tk.cache_key
             /\ tk.prev[1].adapters > 0
             /\ tk.prev[1].clean /\ tk.prev[1].fresh) =>
               /\ tk.status = "returned"
               /\ tk.response = Response(TRUE, tk.prev[1].value, "None")
               /\ tk.invoked = <<>>
               /\ tk.netcalls = 0

\* The first search failed over from A to B; the second one is served.
C3_Witness ==
    \E t \in DOMAIN task :
        LET tk == task[t]
        IN  /\ tk.op = "search" /\ tk.pc = "done" /\ tk.faults = "none"
            /\ ~TruthyStr(tk.platform)
            /\ tk.prev # <<>>
            /\ tk.prev[1].key = tk.cache_key /\ tk.prev[1].adapters = 2
            /\ tk.prev[1].clean /\ tk.prev[1].fresh
            /\ tk.response.success /\ tk.invoked = <<>>

\* C4: when the platform names a registered adapter and that adapter
\* returns Failure(e), the search is over: it returns success=False with
\* the error e, has invoked that adapter only, and has written no
\* final-cache entry.
C4_ExplicitPlatformNoFailover ==
    \A t \in DOMAIN task :
        LET tk == task[t]
        IN  (/\ tk.op = "search" /\ Named(tk)
             /\ tk.results # <<>> /\ tk.results[1] = "failure") =>
               /\ tk.pc = "done" /\ tk.status = "returned"
               /\ tk.response = Response(FALSE, None, tk.last.error)
               /\ tk.invoked = <<Upper(tk.platform)>>
               /\ NoFinalWrite(tk)

\* The named adapter answered with status 429 and another adapter exists.
C4_Witness ==
    \E t \in DOMAIN task :
        LET tk == task[t]
        IN  /\ tk.op = "search" /\ tk.pc = "done" /\ Named(tk)
            /\ Len(Registry(tk.kind)) >= 2
            /\ tk.results = <<"failure">>
            /\ tk.response.error = ErrRateLimit

\* C5: a search whose platform is a non-empty string that names no
\* registered adapter returns the invalid-platform failure, invokes no
\* adapter and writes no cache entry, from any reachable cache state.
C5_UnknownPlatform ==
    \A t \in DOMAIN task :
        LET tk == task[t]
        IN  (/\ tk.op = "search" /\ tk.pc = "done"
             /\ TruthyStr(tk.platform)
             /\ Upper(tk.platform) \notin Names(Registry(tk.kind))) =>
               /\ tk.status = "returned"
               /\ tk.response = Response(FALSE, None, ErrInvalidPlatform)
               /\ tk.invoked = <<>>
               /\ tk.sets = {}

C7_AllAdaptersFail ==
    \A t \in DOMAIN task :
        LET tk == task[t]
            reg == Registry(tk.kind)
        IN  (/\ tk.op = "search" /\ ~TruthyStr(tk.platform)
             /\ Len(reg) > 0 /\ Len(tk.results) = Len(reg)
             /\ \A i \in 1..Len(reg) : tk.results[i] = "failure") =>
               /\ tk.pc = "done" /\ tk.status = "returned"
               /\ tk.response = Response(FALSE, None, ErrAllFailed)
               /\ tk.invoked = reg
               /\ NoFinalWrite(tk)

\* Both adapters of a registry of two have failed.
C7_Witness ==
    \E t \in DOMAIN task :
        LET tk == task[t]
        IN  /\ tk.op = "search" /\ tk.pc = "done" /\ ~TruthyStr(tk.platform)
            /\ tk.results = <<"failure", "failure">>
            /\ tk.invoked = Registry(tk.kind)
            /\ tk.response.error = ErrAllFailed

-----------------------------------------------------------------------------
(* Properties of the cache                                                 *)

Gets == {"get_raw", "get_final"}

\* C8: a get that finds its key absent from tier-1 and present in tier-2,
\* no backend operation raising, returns the tier-2 value, has read tier-2
\* once and leaves the value in tier-1; the next get of the key, with
\* nothing happening in between and its tier-1 read not raising, returns
\* the same value and reads tier-2 zero times.
C8_Promotion ==
    \A t \in DOMAIN task :
        LET tk == task[t]
        IN  /\ (/\ tk.op \in Gets /\ tk.pc = "done" /\ tk.faults = "none"
                /\ tk.l1seen = None /\ tk.l2seen # None) =>
                  /\ tk.status = "returned"
                  /\ tk.retval = json_loads(tk.l2seen)
                  /\ tk.l2reads = 1
                  /\ RedisValue(redis, tk.ckey) = tk.l2seen
            /\ (/\ tk.op \in Gets /\ tk.pc = "done" /\ ~tk.l1err
                /\ tk.prev # <<>>
                /\ tk.prev[1].op = tk.op /\ tk.prev[1].key = tk.ckey
                /\ tk.prev[1].l2reads = 1 /\ tk.prev[1].value # None
                /\ tk.prev[1].clean /\ tk.prev[1].fresh) =>
                  /\ tk.status = "returned"
                  /\ tk.retval = tk.prev[1].value
                  /\ tk.l2reads = 0

\* The second of two gets of a key that was in tier-2 only has returned.
C8_Witness ==
    \E t \in DOMAIN task :
        LET tk == task[t]
        IN  /\ tk.op \in Gets /\ tk.pc = "done" /\ ~tk.l1err
            /\ tk.prev # <<>>
            /\ tk.prev[1].op = tk.op /\ tk.prev[1].key = tk.ckey
            /\ tk.prev[1].l2reads = 1 /\ tk.prev[1].value # None
            /\ tk.prev[1].clean /\ tk.prev[1].fresh
            /\ tk.retval = tk.prev[1].value /\ tk.l2reads = 0

\* The get follows a set of the same key in the same namespace, both with
\* no backend operation raising; tier-1 entries may have expired in between.
SetThenGet(tk) ==
    /\ tk.op \in Gets /\ tk.pc = "done" /\ tk.faults = "none"
    /\ tk.prev # <<>>
    /\ tk.prev[1].op = (IF tk.op = "get_raw" THEN "set_raw" ELSE "set_final")
    /\ tk.prev[1].key = tk.ckey
    /\ tk.prev[1].clean

\* C9 as stated: set(ns, k, v) followed by get(ns, k) returns a value equal
\* to v, also after the tier-1 entry has expired.
C9_RoundTripEqual ==
    \A t \in DOMAIN task :
        SetThenGet(task[t]) => task[t].retval = task[t].prev[1].value

\* C9: set(ns, k, v) followed by get(ns, k) returns v for the raw namespace,
\* and for the final namespace v with every Pydantic model replaced by its
\* model_dump() dict; also after the tier-1 entry has expired.
C9_RoundTripSerialized ==
    \A t \in DOMAIN task :
        LET tk == task[t]
        IN  SetThenGet(tk) =>
               /\ tk.status = "returned"
               /\ tk.retval = (IF tk.op = "get_raw" THEN tk.prev[1].value
                               ELSE Dumped(tk.prev[1].value))

\* set_final of a list of models, expiry of the tier-1 entry, get_final.
C9_Witness ==
    \E t \in DOMAIN task :
        LET tk == task[t]
        IN  /\ SetThenGet(tk)
            /\ tk.op = "get_final"
            /\ tk.prev[1].value = PyList(<<"C">>)
            /\ ~tk.prev[1].fresh /\ tk.l2reads = 1
            /\ tk.retval = PyList(<<"{C}">>)

-----------------------------------------------------------------------------
(* A search on a healthy cache that starts empty                           *)

Outcome(status, response, exception) ==
    [status |-> status, response |-> response, exception |-> exception]

\* The adapters from registry entry i on, with the raw entries `raw` the
\* search has stored so far.  The j-th adapter invoked has its request
\* answered with tk.answers[j]; "unknown" where the search that recorded the
\* answers did not get that far.
RECURSIVE EmptyCacheLoop(_, _, _, _)
EmptyCacheLoop(tk, explicit, i, raw) ==
    LET reg == Registry(tk.kind)
        class == AdapterClass(tk.kind, reg[i])
        key == raw_cache_key(class, Params(class, tk.query))
        value_str == Lookup(raw, key)
        cached == IF TruthyStr(value_str) THEN json_loads(value_str) ELSE None
        j == IF explicit THEN 1 ELSE i
        answer == IF j <= Len(tk.answers) THEN tk.answers[j] ELSE <<"unknown">>
        called == ~Truthy(cached) /\ UrlIsSet(tk.kind, reg[i])
                     /\ answer[1] \notin HttpFailures \cup {"unknown"}
        request ==
            IF Truthy(cached) THEN Success(cached)
            ELSE IF ~UrlIsSet(tk.kind, reg[i]) THEN Raised("TypeError")
            ELSE IF answer[1] = "unknown" THEN Raised("unknown")
            ELSE IF answer[1] \in HttpFailures THEN HttpResult(answer[1])
            ELSE Success(answer)
        result ==
            IF class = "NominatimReverseGeocoder" THEN Raised("AttributeError")
            ELSE IF request.raised \/ ~request.ok THEN request
            ELSE normalize(class, request.value)
    IN  IF result.raised THEN Outcome("raised", NoResponse, result.error)
        ELSE IF result.ok THEN
            Outcome("returned", SuccessResponse(result.value), "None")
        ELSE IF explicit THEN
            Outcome("returned", Response(FALSE, None, result.error), "None")
        ELSE IF i < Len(reg) THEN
            EmptyCacheLoop(tk, explicit, i + 1,
                           IF called THEN Put(raw, key, json_dumps(answer)) ELSE raw)
        ELSE Outcome("returned", Response(FALSE, None, ErrAllFailed), "None")

\* What search(tk.query, tk.platform) does on an empty cache whose
\* operations all succeed, the providers answering as tk.answers records.
EmptyCacheSearch(tk) ==
    LET reg  == Registry(tk.kind)
        hits == {i \in 1..Len(reg) : reg[i] = Upper(tk.platform)}
    IN  IF TruthyStr(tk.platform) THEN
            IF hits = {} THEN
                Outcome("returned", Response(FALSE, None, ErrInvalidPlatform), "None")
            ELSE EmptyCacheLoop(tk, TRUE, CHOOSE i \in hits : TRUE, EmptyMap)
        ELSE IF Len(reg) = 0 THEN
            Outcome("returned", Response(FALSE, None, ErrNoGeocoders), "None")
        ELSE EmptyCacheLoop(tk, FALSE, 1, EmptyMap)

\* C10: no call of the cache raises to its caller, and a search all of
\* whose cache operations fail (connections not opened, closed, or backend
\* errors in both tiers) ends with exactly the outcome of the same search
\* on an empty cache, the providers answering alike.
C10_CacheErrorsAbsorbed ==
    \A t \in DOMAIN task :
        LET tk == task[t]
        IN  /\ (tk.op \in Gets \cup {"set_raw", "set_final"} /\ tk.pc = "done") =>
                  tk.status = "returned"
            /\ (tk.op = "search" /\ tk.pc = "done" /\ tk.faults = "all") =>
                  Outcome(tk.status, tk.response, tk.exception) = EmptyCacheSearch(tk)

-----------------------------------------------------------------------------
\* C11: a set interrupted between its tier-1 write and its tier-2 write
\* leaves tier-2 authoritative: tier-1 holds no value for the key that
\* tier-2 does not hold.
C11_InterruptedSet ==
    \A t \in DOMAIN task :
        LET tk == task[t]
        IN  (/\ tk.pc = "done"
             /\ tk.status = "cancelled"
             /\ tk.op \in {"set_raw", "set_final"}
             /\ tk.ops = 1)
            => \/ RedisValue(redis, tk.ckey) = None
               \/ RedisValue(redis, tk.ckey) = Lookup(sqlite[tk.ctable], tk.ckey)

-----------------------------------------------------------------------------
\* What the raw-response cache holds under a key, tier-1 first.
RawEntry(key) ==
    IF RedisValue(redis, key) # None THEN RedisValue(redis, key)
    ELSE Lookup(sqlite["raw_responses"], key)

\* C12: an adapter's request issues a network call only when the
\* raw-response cache, both tiers answering, holds no entry under the key
\* derived from the adapter's name and params.
C12_RawCacheBeforeNetwork ==
    \A t \in DOMAIN task :
        (/\ task[t].pc = "http_get"
         /\ ~RedisRaises
         /\ ~SqliteRaises)
        => RawEntry(task[t].ckey) = None

-----------------------------------------------------------------------------
\* C13: whatever the provider call ends in, every adapter invoked by a
\* search returns a Result: no call of get_coordinates / get_addresses
\* ends by raising.
C13_AdapterErrorsAreValues ==
    \A t \in DOMAIN task :
        \A i \in 1..Len(task[t].results) : task[t].results[i] # "raised"

-----------------------------------------------------------------------------
\* C14: an adapter whose request succeeded with a well-formed payload that
\* holds no record returns a Failure, and every Success an adapter returns
\* carries a non-empty list.
C14_NoEmptySuccess ==
    args.fn = "get_records" =>
        /\ (args.result.ok /\ args.result.value \in EmptyAnswers(args.class))
              => (~out.ok /\ ~out.raised)
        /\ out.ok => Truthy(out.value)

-----------------------------------------------------------------------------
\* C15: when the adapter's request yields Failure(e), get_coordinates /
\* get_addresses returns that Failure, error unchanged, for every adapter
\* class.
C15_RequestFailurePropagated ==
    (args.fn = "get_records" /\ ~args.result.ok /\ ~args.result.raised)
        => out = args.result

-----------------------------------------------------------------------------
\* The three failures search words itself.
OrchestratorErrors == {ErrInvalidPlatform, ErrNoGeocoders, ErrAllFailed}

\* C16: every response search returns is a success with data and no error,
\* or a failure with an error and no data; the failure's error is the
\* invalid-platform, no-providers or all-failed message, or else the error
\* of the one adapter invoked, and that only when a platform was given.
C16_ClosedOutcomes ==
    \A t \in DOMAIN task :
        LET tk == task[t]
            r  == tk.response
        IN  (tk.op = "search" /\ tk.pc = "done" /\ tk.status = "returned") =>
                \/ r.success /\ r.data # None /\ r.error = "None"
                \/ /\ ~r.success /\ r.data = None /\ r.error # "None"
                   /\ \/ r.error \in OrchestratorErrors
                      \/ /\ TruthyStr(tk.platform)
                         /\ Len(tk.invoked) = 1
                         /\ ~tk.last.ok /\ ~tk.last.raised
                         /\ r.error = tk.last.error

\* A search with a platform has returned the named adapter's own error.
C16_Witness ==
    \E t \in DOMAIN task :
        /\ task[t].op = "search" /\ task[t].pc = "done"
        /\ task[t].status = "returned"
        /\ ~task[t].response.success
        /\ task[t].response.error \notin OrchestratorErrors
        /\ task[t].response.error = ErrRateLimit

-----------------------------------------------------------------------------
\* An adapter none of whose settings read from the environment is None.
FullyConfigured(adapter) == Url(adapter) # None /\ ApiKey(adapter) # None

\* C17: in every environment the constructor of Geocoder and of
\* GeocoderReverser completes, and every entry of the registry it builds
\* is fully configured.
C17_RegistryComplete ==
    args.fn = "__init__" =>
        /\ ~out.raised
        /\ \A i \in 1..Len(out.registry) : FullyConfigured(out.registry[i])

-----------------------------------------------------------------------------
\* C18: the raw-response keys derived from two dicts with the same entries
\* inserted in different orders are identical, and the key is
\* raw:<name>:<hash of the entries serialized in ascending key order>.
C18_RawKeyDeterminism ==
    args.fn = "_generate_cache_key" =>
        /\ out[1] = out[2]
        /\ out[1][1] = "raw"
        /\ out[1][2] = args.class
        /\ out[1][3][1] = "sha256"
        /\ LET text == out[1][3][2]
           IN  /\ Len(text) = Len(args.first)
               /\ {text[i] : i \in 1..Len(text)}
                     = {args.first[i] : i \in 1..Len(args.first)}
               /\ \A i, j \in 1..Len(text) :
                     i < j => ParamRank(text[i][1]) < ParamRank(text[j][1])

\* The key was derived from two dicts filled in different orders, neither
\* of them in key order.
C18_Witness ==
    /\ args.fn = "_generate_cache_key"
    /\ args.first # args.second
    /\ out[1] = out[2]
    /\ out[1][3][2] \notin {args.first, args.second}

-----------------------------------------------------------------------------
\* A coordinate cut after, and rounded to, its sixth decimal.
Cut6(x) == x \div 10

Rounded6(x) == (x + 5) \div 10

-----------------------------------------------------------------------------
\* A platform selector as the claim compares it: absent, or lowercased and
\* trimmed.
Selector(platform) == IF platform = None THEN None ELSE Strip(Lower(platform))

\* The current geocode request and the successful search before it agree
\* after normalization of the address and of the platform selector.
Alike(tk) ==
    /\ tk.op = "search" /\ tk.kind = "geocode"
    /\ tk.prev # <<>>
    /\ tk.prev[1].op = "search"
    /\ tk.prev[1].request # <<>>
    /\ Strip(Lower(tk.query)) = Strip(Lower(tk.prev[1].request[1]))
    /\ Selector(tk.platform) = Selector(tk.prev[1].request[2])

\* C20: a geocode request whose address and platform selector equal, after
\* lowercasing and trimming, those of the successful search before it
\* derives the same final key, and with a healthy cache and no expiry in
\* between it returns that search's data and invokes no adapter.  The empty
\* selector gets the token any before it is trimmed and the blank one stays
\* a selector that trims to nothing, so the two derive different keys.
C20_GeocodeKeyNormalization ==
    \A t \in DOMAIN task :
        LET tk == task[t]
        IN  Alike(tk) =>
               /\ tk.cache_key = tk.prev[1].key
               /\ (/\ tk.pc = "done" /\ tk.faults = "none"
                   /\ tk.prev[1].clean /\ tk.prev[1].fresh) =>
                      /\ tk.status = "returned"
                      /\ tk.response = Response(TRUE, tk.prev[1].value, "None")
                      /\ tk.invoked = <<>>
                      /\ tk.netcalls = 0

-----------------------------------------------------------------------------
\* get_final of the search has returned None: the search is past its
\* lookup and did not return the cached data.
FinalMiss(tk) ==
    /\ tk.op = "search"
    /\ ~(tk.ret = "final_get" /\ tk.pc \in {"redis_get", "sqlite_select", "redis_promote"})
    /\ ~(/\ tk.pc = "done" /\ tk.ret = "final_get"
         /\ tk.status = "returned" /\ tk.response.success)

\* The registered names the platform argument equals up to letter case.
SameLetters(tk) ==
    IF TruthyStr(tk.platform)
    THEN {N \in Names(Registry(tk.kind)) :
             Len(N) = Len(tk.platform) /\ Lower(N) = Lower(tk.platform)}
    ELSE {}

\* C21: a search whose platform equals a registered name N up to letter
\* case has, once the final-response cache missed, invoked the adapter
\* registered under N and no other.
C21_CaseInsensitiveLookup ==
    \A t \in DOMAIN task :
        LET tk == task[t]
        IN  FinalMiss(tk) =>
               \A N \in SameLetters(tk) :
                  /\ Len(tk.invoked) = 1
                  /\ tk.invoked[1] = N
                  /\ Registry(tk.kind)[tk.idx] = N

\* search(coordinates, "here") ended after invoking HERE, the second entry
\* of the registry, only.
C21_Witness ==
    \E t \in DOMAIN task :
        LET tk == task[t]
        IN  /\ FinalMiss(tk) /\ tk.pc = "done"
            /\ tk.platform = Lower(sHERE)
            /\ tk.invoked = <<sHERE>>
            /\ tk.idx = 2
            /\ tk.netcalls = 1

-----------------------------------------------------------------------------
\* C22: get_final never returns a value that was stored with set_raw, and
\* get_raw never returns a value that was stored with set_final, whatever
\* the key.  (The values callers store in the two namespaces are distinct,
\* so a returned value tells which set stored it.)  Tier-1 is read and
\* written under the bare key, without the table name, so a key used in
\* both namespaces has one tier-1 entry.
C22_NamespaceIsolation ==
    \A t \in DOMAIN task :
        LET tk == task[t]
        IN  (tk.pc = "done" /\ tk.status = "returned") =>
               /\ tk.op = "get_final" => tk.retval \notin RawValues
               /\ tk.op = "get_raw" =>
                     tk.retval \notin {Dumped(v) : v \in FinalValues}

-----------------------------------------------------------------------------
\* C23: map and flat_map called on a Failure return a Failure with the same
\* error and do not call the function; map_err called on a Success returns
\* a Success with the same value and does not call the function; and a
\* Result, the one called as well as the one returned, is a success exactly
\* when it is not a failure.
C23_NoOpOnOtherVariant ==
    args.fn = "result" =>
        /\ is_success(args.self) = ~is_failure(args.self)
        /\ is_success(out.result) = ~is_failure(out.result)
        /\ (args.method \in {"map", "flat_map"} /\ is_failure(args.self)) =>
              /\ is_failure(out.result)
              /\ unwrap_err(out.result) = unwrap_err(args.self)
              /\ out.calls = 0
        /\ (args.method = "map_err" /\ is_success(args.self)) =>
              /\ is_success(out.result)
              /\ unwrap(out.result) = unwrap(args.self)
              /\ out.calls = 0

\* Failure("Rate limit ...").map(f) with an f that would have returned [].
C23_Witness ==
    /\ args.fn = "result"
    /\ args.method = "map" /\ args.func = "empty"
    /\ args.self = Failure(ErrRateLimit)
    /\ out = Returned(Failure(ErrRateLimit), 0)

-----------------------------------------------------------------------------
\* Every optional field of the address is absent or empty.
AllAbsent(self) == \A f \in OptionalFields : ~TruthyStr(self[f])

\* No text between two commas of `text` (or before the first, or after the
\* last) is empty or blank.
NoEmptySegment(text) ==
    LET split == str_split(text)
    IN  \A i \in 1..Len(split) : Strip(split[i]) # <<>>

\* C24 as stated: format_address_robust returns the empty string exactly
\* when every optional field is absent or empty; otherwise it returns what
\* format_address returns, which has no empty comma-separated segment.
C24_EmptyExactlyWhenAbsent ==
    args.fn = "format_address" =>
        /\ (out.robust = <<>>) <=> AllAbsent(args.self)
        /\ ~AllAbsent(args.self) =>
              /\ out.robust = out.formatted
              /\ NoEmptySegment(out.formatted)

\* C24: format_address_robust returns the empty string when every
\* optional field is absent or empty, whatever formatted_address holds;
\* otherwise it returns what format_address returns, which is empty or has
\* no empty comma-separated segment.
C24_EmptyWhenAbsent ==
    args.fn = "format_address" =>
        /\ AllAbsent(args.self) => out.robust = <<>>
        /\ ~AllAbsent(args.self) =>
              /\ out.robust = out.formatted
              /\ out.formatted # <<>> => NoEmptySegment(out.formatted)

\* An address with no optional field and a populated formatted_address,
\* formatted with "At %r,%p": format_address returns "At" and
\* format_address_robust the empty string.
C24_Witness ==
    /\ args.fn = "format_address"
    /\ AllAbsent(args.self)
    /\ args.self.formatted_address # <<>>
    /\ out.formatted = <<"A", "t">>
    /\ out.robust = <<>>

-----------------------------------------------------------------------------
\* The terminal outcomes of a search that returned a response.
CacheHit(tk) ==
    tk.response.success /\ tk.invoked = <<>>

SuccessAndCached(tk) ==
    /\ tk.response.success /\ tk.invoked # <<>>
    /\ tk.results[Len(tk.results)] = "success"
    /\ <<"final_responses", tk.cache_key>> \in tk.sets

InvalidPlatform(tk) ==
    /\ ~tk.response.success /\ tk.response.error = ErrInvalidPlatform
    /\ tk.invoked = <<>> /\ TruthyStr(tk.platform)

SingleAdapterFailure(tk) ==
    /\ ~tk.response.success /\ tk.explicit
    /\ tk.results = <<"failure">> /\ tk.response.error = tk.last.error

NoProviders(tk) ==
    /\ ~tk.response.success /\ tk.response.error = ErrNoGeocoders
    /\ tk.invoked = <<>> /\ ~TruthyStr(tk.platform)
    /\ Registry(tk.kind) = <<>>

AllFailed(tk) ==
    /\ ~tk.response.success /\ tk.response.error = ErrAllFailed
    /\ ~tk.explicit /\ tk.invoked = Registry(tk.kind) /\ tk.invoked # <<>>
    /\ \A i \in 1..Len(tk.results) : tk.results[i] = "failure"

Outcomes(tk) ==
    {o \in 1..6 : <<CacheHit(tk), SuccessAndCached(tk), InvalidPlatform(tk),
                    SingleAdapterFailure(tk), NoProviders(tk), AllFailed(tk)>>[o]}

\* No adapter is invoked twice, and no more adapters than the registry holds.
InvokedOnce(tk) ==
    /\ \A i, j \in 1..Len(tk.invoked) : tk.invoked[i] = tk.invoked[j] => i = j
    /\ Len(tk.invoked) <= Len(Registry(tk.kind))

\* The search is over, and if it returned a response, with exactly one of
\* the six outcomes.
Terminated(tk) ==
    /\ tk.pc = "done"
    /\ tk.status = "returned" => Cardinality(Outcomes(tk)) = 1

\* C25: with every awaited operation returning, a search that was called
\* ends; it never invokes an adapter twice nor more adapters than the
\* registry holds; and where it returns a response (no adapter call having
\* raised) the response is exactly one of cache hit, success-and-cached,
\* invalid platform, single adapter failure, no providers, all failed.
C25_SearchTerminates ==
    \A t \in {"t1"} :
        /\ [](task[t].op = "search" => InvokedOnce(task[t]))
        /\ []((task[t].op = "search" /\ task[t].pc = "done") => Terminated(task[t]))
        /\ (task[t].op = "search") ~> Terminated(task[t])

\* A failover search over two adapters ended in "All geocoding services
\* failed." after two network calls.
C25_Witness ==
    \E t \in DOMAIN task :
        LET tk == task[t]
        IN  /\ tk.op = "search" /\ Terminated(tk)
            /\ AllFailed(tk)
            /\ Len(tk.invoked) >= 2
            /\ tk.netcalls = Len(tk.invoked)

-----------------------------------------------------------------------------
Sets == {"set_raw", "set_final"}

\* C26: a set that has returned has written its value to every tier whose
\* write did not raise, to tier-2 also when the tier-1 write raised; a get
\* whose tier-1 read raised has read tier-2 and returns what tier-2 holds,
\* also when the promotion raised; and no tier-2 table holds two rows with
\* the same key.
C26_TierIndependence ==
    /\ \A t \in DOMAIN task :
          LET tk == task[t]
              row == Lookup(sqlite[tk.ctable], tk.ckey)
          IN  /\ (tk.op \in Sets /\ tk.pc = "done") =>
                    /\ tk.status = "returned"
                    /\ ~RedisRaises => RedisValue(redis, tk.ckey) = tk.cval
                    /\ ~SqliteRaises => row = tk.cval
              /\ (tk.op \in Gets /\ tk.pc = "done" /\ RedisRaises /\ ~SqliteRaises) =>
                    /\ tk.status = "returned"
                    /\ tk.l2reads = 1
                    /\ tk.retval = (IF TruthyStr(row) THEN json_loads(row) ELSE None)
    /\ \A tb \in Tables : \A r1, r2 \in sqlite[tb] : r1[1] = r2[1] => r1 = r2

\* With Redis down, a set has stored its value in tier-2 over an older
\* value of the key, and the get after it returned that value from tier-2.
C26_Witness ==
    \E t \in DOMAIN task :
        LET tk == task[t]
        IN  /\ tk.op \in Gets /\ tk.pc = "done"
            /\ RedisRaises /\ ~SqliteRaises
            /\ tk.prev # <<>> /\ tk.prev[1].op \in Sets
            /\ tk.prev[1].key = tk.ckey /\ ~tk.prev[1].clean
            /\ tk.retval # None /\ tk.l2reads = 1
            /\ RedisValue(redis, tk.ckey) \notin {None, Lookup(sqlite[tk.ctable], tk.ckey)}

-----------------------------------------------------------------------------
(* Properties of overlapping cache calls                                   *)

\* The last call of t that has completed, as Summary keeps it.
LastCall(t) ==
    IF task[t].pc = "done" THEN Summary(task[t])
    ELSE IF task[t].pc = "idle" THEN task[t].prev
    ELSE <<>>

\* The text a set call stored for its value.
StoredText(call) ==
    IF call.op = "set_raw" THEN json_dumps(call.value)
    ELSE json_dumps(Dumped(call.value))

TableOf(op) ==
    IF op \in {"get_raw", "set_raw"} THEN "raw_responses" ELSE "final_responses"

\* The text a get of the key called now finds, tier-1 first.
LaterGet(tb, k) ==
    IF TruthyStr(RedisValue(redis, k)) THEN RedisValue(redis, k)
    ELSE Lookup(sqlite[tb], k)

\* C27: when the only calls made are two sets of the same namespace on one
\* key, by two coroutines, and both have completed with no backend error,
\* tier-1 and tier-2 hold the same value for the key, the value of one of
\* the two.
C27_WritersConverge ==
    \A t, u \in DOMAIN task :
        LET a == LastCall(t)
            b == LastCall(u)
        IN  (/\ t # u /\ calls = 2
             /\ a # <<>> /\ b # <<>>
             /\ a[1].op \in Sets /\ b[1].op = a[1].op
             /\ a[1].key = b[1].key
             /\ a[1].clean /\ b[1].clean) =>
               /\ RedisValue(redis, a[1].key)
                     = Lookup(sqlite[TableOf(a[1].op)], a[1].key)
               /\ RedisValue(redis, a[1].key)
                     \in {StoredText(a[1]), StoredText(b[1])}

\* C28: when the only calls made are a get that found the older entry of a
\* key in tier-2 and promoted it, and a set of a new value on the same key
\* of the same namespace by another coroutine, then once both have
\* completed a get of the key finds the new value, and tier-1 holds for the
\* key the new value or nothing, never the older entry.
C28_PromotionKeepsNewer ==
    \A t, u \in DOMAIN task :
        LET a == LastCall(t)
            b == LastCall(u)
        IN  (/\ t # u /\ calls = 2
             /\ a # <<>> /\ b # <<>>
             /\ a[1].op \in Gets /\ b[1].op \in Sets
             /\ TableOf(a[1].op) = TableOf(b[1].op)
             /\ a[1].key = b[1].key
             /\ a[1].clean /\ b[1].clean
             /\ a[1].l2reads = 1
             /\ a[1].value = json_loads(OldEntry)) =>
               /\ LaterGet(TableOf(b[1].op), b[1].key) = StoredText(b[1])
               /\ RedisValue(redis, b[1].key) \in {None, StoredText(b[1])}

-----------------------------------------------------------------------------
(* Properties of the final key                                             *)

\* The normalized query and the platform selector, or None for no selector,
\* of a request <<kind, query, platform>>.
Normalized(request) ==
    << query_norm(request[1], request[2]),
       IF request[3] = None THEN None ELSE Strip(Lower(request[3])) >>

\* C29: two requests of one orchestrator whose normalized pairs (query,
\* platform or absent) differ derive different strings to hash, and so
\* different final keys.
C29_FinalKeyInjective ==
    args.fn = "generate_cache_key" =>
        (Normalized(args.first) # Normalized(args.second) =>
            /\ out.first # out.second
            /\ out.keys[1] # out.keys[2])

\* The registry entries search tries for a platform selector: those named
\* platform.upper(), or every entry when the selector is falsy.
Resolved(kind, platform) ==
    LET reg == Registry(kind)
    IN  IF TruthyStr(platform)
        THEN {i \in 1..Len(reg) : reg[i] = Upper(platform)}
        ELSE 1..Len(reg)

\* The lookup of search rejects the selector.
Rejected(kind, platform) ==
    TruthyStr(platform) /\ Resolved(kind, platform) = {}

\* C30: a geocode request that derives the final key of the successful
\* search before it resolves its platform selector to the same registry
\* entries as that search did, or both to none; and a request whose
\* selector the lookup rejects is answered "Invalid platform specified."
\* whatever earlier searches stored in the cache.
C30_KeyAgreesWithLookup ==
    \A t \in DOMAIN task :
        LET tk == task[t]
        IN  (tk.op = "search" /\ tk.kind = "geocode") =>
               /\ (/\ tk.prev # <<>>
                   /\ tk.prev[1].op = "search"
                   /\ tk.prev[1].request # <<>>
                   /\ tk.cache_key = tk.prev[1].key) =>
                      Resolved(tk.kind, tk.platform)
                         = Resolved(tk.kind, tk.prev[1].request[2])
               /\ (/\ tk.pc = "done" /\ tk.status = "returned"
                   /\ Rejected(tk.kind, tk.platform)) =>
                      tk.response = Response(FALSE, None, ErrInvalidPlatform)

-----------------------------------------------------------------------------
(* Properties of the raw key                                               *)

\* The raw key the adapter registered under `entry` derives for a query.
EntryRawKey(kind, entry, query) ==
    LET class == AdapterClass(kind, entry)
    IN  raw_cache_key(class, Params(class, query))

\* C31: the raw key under which the adapter of a registry entry reads and
\* writes its response for a query is not the raw key that the adapter of
\* another entry of the registry derives for that query, so that a raw
\* response fetched by one is not read by the other.
C31_RawKeyPerEntry ==
    \A t \in DOMAIN task :
        LET tk == task[t]
        IN  (tk.op = "search" /\ tk.ret = "raw_get" /\ tk.idx > 0) =>
               \A other \in Names(Registry(tk.kind)) \ {Registry(tk.kind)[tk.idx]} :
                  tk.ckey # EntryRawKey(tk.kind, other, tk.query)

\* The adapter call that search made last has returned a Failure.
LastCallFailed(tk) ==
    /\ tk.op = "search"
    /\ Len(tk.results) = Len(tk.invoked)
    /\ Len(tk.results) > 0
    /\ tk.results[Len(tk.results)] = "failure"

\* The call's set_raw has left the provider's response in a tier.
RawEntryWritten(tk) ==
    /\ tk.ret = "raw_set"
    /\ \/ RedisValue(redis, tk.ckey) = tk.cval
       \/ Lookup(sqlite["raw_responses"], tk.ckey) = tk.cval

\* C32: an adapter call that returned a Failure has left no raw entry with
\* the provider's response in either tier, and it was not answered from the
\* raw cache: a call that finds a raw entry returns the Success it replays.
C32_FailureWritesNoRawEntry ==
    \A t \in DOMAIN task :
        LET tk == task[t]
        IN  (LastCallFailed(tk) /\ tk.pc = "done") =>
               /\ ~RawEntryWritten(tk)
               /\ tk.answers[Len(tk.answers)] # <<"cached">>

-----------------------------------------------------------------------------
(* Properties of the final cache                                           *)

\* The text set_final stores for a list of records.
FinalText(value) == json_dumps(value_to_serialize(value))

\* The texts of the lists an adapter of the orchestrator can return in a
\* Success: the non-empty lists of records made of a provider's response.
GeocodeTexts ==
    { FinalText(get_coordinates(Success(p)).value) :
        p \in {q \in Payloads("NominatimGeocoder") :
                  /\ get_coordinates(Success(q)).ok
                  /\ Truthy(get_coordinates(Success(q)).value)} }

AddressTexts(class) ==
    { FinalText(get_addresses(class, Success(p)).value) :
        p \in {q \in Payloads(class) :
                  /\ get_addresses(class, Success(q)).ok
                  /\ Truthy(get_addresses(class, Success(q)).value)} }

RevgeoTexts ==
    AddressTexts("GeoapifyReverseGeocoder") \cup AddressTexts("HereReverseGeocoder")

\* The text of an entry filed under a final key, in either tier, is one of
\* those texts.
Stored(key, text) ==
    /\ key[1] = "final"
    /\ text \in (IF key[2] = "geocode" THEN GeocodeTexts ELSE RevgeoTexts)

\* C33: every entry of the final-response cache is filed under a final key
\* and holds the non-empty list of records an adapter of that orchestrator
\* returns in a Success; a search that is writing the final cache does so
\* after an adapter returned Success, under its own key, with that list;
\* and a search that ended in a failure outcome wrote nothing to the final
\* cache.
C33_FinalCacheHoldsSuccesses ==
    /\ \A row \in sqlite["final_responses"] : Stored(row[1], row[2])
    /\ \A i \in 1..Len(redis) :
          redis[i][1][1] = "final" => Stored(redis[i][1], redis[i][2])
    /\ \A t \in DOMAIN task :
          LET tk == task[t]
          IN  tk.op = "search" =>
                 /\ tk.ret = "final_set" =>
                        /\ tk.last.ok /\ Truthy(tk.last.value)
                        /\ tk.ckey = tk.cache_key
                        /\ tk.cval = FinalText(tk.last.value)
                 /\ (/\ tk.pc = "done" /\ tk.status = "returned"
                     /\ ~tk.response.success) =>
                        \A pair \in tk.sets : pair[1] # "final_responses"

\* A search ended in a failure outcome while the final cache held the entry
\* an earlier search stored, in both tiers.
C33_Witness ==
    /\ sqlite["final_responses"] # {}
    /\ \E i \in 1..Len(redis) : redis[i][1][1] = "final"
    /\ \E t \in DOMAIN task :
          /\ task[t].op = "search" /\ task[t].pc = "done"
          /\ task[t].status = "returned" /\ ~task[t].response.success
          /\ task[t].netcalls > 0

=============================================================================
